---- MODULE Spec2Model ----
(***************************************************************************)
(* A model of copc-rs: the COPC writer (octree placement, chunk emission,  *)
(* finalisation), the chunk compressor's bookkeeping, and the reader       *)
(* (hierarchy load, query planner, point iterator).                        *)
(*                                                                         *)
(* World coordinates and GPS times are integers.  The header bounds are    *)
(* chosen so that every octree cell of the levels the model reaches has    *)
(* integer corners, which makes the code's f64 arithmetic exact here.      *)
(***************************************************************************)
EXTENDS Integers, Sequences, FiniteSets, TLC

VARIABLES
    \* ---- CopcWriter (writer.rs:31-46)
    new_result,      \* outcome of CopcWriter::new
    is_closed,
    start,
    min_node_size,
    max_node_size,
    header,          \* [number_of_points]
    copc_info,       \* [gpstime_minimum, gpstime_maximum, root_hier_offset, root_hier_size]
    octree,          \* root_node: VoxelKey of every created node -> entry.point_count
    open_chunks,     \* VoxelKey -> sequence of raw points
    hierarchy,       \* hierarchy.entries
    compressor,      \* [start_pos, chunk_start_pos, chunk_table, current_chunk_entry]
    sink,            \* the Write + Seek: [pos, data]
    \* ---- position inside CopcWriter::write
    pc,              \* "idle" | "writing" | "aborted"
    num_points,      \* the num_points argument of the running write
    idx,             \* enumerate() index of the next input point
    invalid_points,  \* the invalid_points local of write_greedy / write_stochastic
    result,          \* what the last write / close / drop returned
    dropped,
    \* ---- history of the inputs (not program state)
    fed,
    \* ---- CopcReader and PointIter (reader.rs:15-25, 345-354)
    reader,          \* "none" | "open" | "error"
    r_start,
    r_copc_info,
    hierarchy_entries,
    iter,            \* PointIter, with the history of its seeks and yields
    \* ---- CopcWriter::from_path
    path,            \* the path given: a sequence of pieces of a string
    created,         \* File::create was called
    \* ---- Entry and HierarchyPage (copc.rs)
    hpage,           \* the entries of the HierarchyPage given to into_evlr
    buffer,          \* the bytes into_evlr wrote
    read_back,       \* the entries read_from returned
    \* ---- CopcInfo (copc.rs)
    info,            \* the CopcInfo given to into_vlr
    info_vlr,        \* the Vlr into_vlr returned
    info_back,       \* what CopcInfo::read_from returned
    \* ---- VoxelKey (copc.rs)
    vkey,            \* the key children and bounds are called on
    vchildren,       \* what vkey.children() returned
    vbounds,         \* the bounds of vkey and of its children
    \* ---- the decompressor (decompressor.rs)
    dsource,         \* the source the decompressor reads: position and data
    dec              \* the decompressor, with the history of its calls

wvars == <<new_result, is_closed, start, min_node_size, max_node_size, header,
           copc_info, octree, open_chunks, hierarchy, compressor, sink>>
cvars == <<pc, num_points, idx, invalid_points, result, dropped, fed>>
rvars == <<reader, r_start, r_copc_info, hierarchy_entries, iter>>
pvars == <<path, created>>
evars == <<hpage, buffer, read_back>>
ivars == <<info, info_vlr, info_back>>
kvars == <<vkey, vchildren, vbounds>>
svars == <<dsource, dec>>
xvars == <<pvars, evars, ivars, kvars, svars>>
vars == <<wvars, cvars, rvars, xvars>>

(***************************************************************************)
(* Bounds of the model                                                     *)
(***************************************************************************)
MaxPoints == 5          \* longest input iterator of one write call
MaxPathLen == 5         \* most pieces of a path given to from_path
RandDen == 10           \* fastrand::f64() is drawn from {0/RandDen .. (RandDen-1)/RandDen}
LazChunkOverhead == 4   \* bytes the LAZ codec emits per chunk besides the points
LazBytesPerPoint == 3   \* compressed bytes per point
WorldInfinity == 3000000 \* a world coordinate of this magnitude or more stands for one
                        \* that is infinite or too large to have a raw i32 coordinate
LazVlrLen == 60         \* bytes of the LAZ VLR
WktVlrLen == 40         \* bytes of the WKT CRS VLR

(***************************************************************************)
(* Program constants                                                       *)
(***************************************************************************)
F64_MAX == 1000000                \* f64::MAX; f64::MIN is -F64_MAX
LasHeaderLen == 375               \* size of a LAS 1.4 public header block
VlrHeaderLen == 54
EvlrHeaderLen == 60
CopcInfoLen == 160
EntryLen == 32
ChunkTableOffsetLen == 8
MIN_NODE_SIZE_DEFAULT == 256
MAX_NODE_SIZE_DEFAULT == 1024
I32_MAX == 2147483647

(***************************************************************************)
(* Inputs                                                                  *)
(***************************************************************************)
\* header.bounds() of the header given to CopcWriter::new; not a cube
HeaderBounds == [min |-> [x |-> 0, y |-> 0, z |-> 0], max |-> [x |-> 16, y |-> 16, z |-> 8]]
\* header.transforms(): the same scale and offset on the three axes
Transforms == [scale |-> 2, offset |-> -4]
Starts == {0}
\* (min_size, max_size): sizes given, the defaults asked for (< 1), sizes
\* that are refused
NodeSizeArgs == {<<1, 2>>, <<2, 2>>, <<3, 2>>, <<0, 0>>, <<-1, 2>>, <<1, 0>>, <<2000, -3>>}
WriteHints == {0, 3, 5}

\* a las::Vlr: user id, record id and data
Vlr(user_id, record_id, data) == [user_id |-> user_id, record_id |-> record_id, data |-> data]

\* the header given to CopcWriter::new: version, point data record format
\* byte and record length as header.into_raw() gives them, VLRs and EVLRs
InputHeader(version, format, vlrs, evlrs) ==
    [version |-> version, point_data_record_format |-> format[1],
     point_data_record_length |-> format[2], vlrs |-> vlrs, evlrs |-> evlrs]

\* a GeoTIFF CRS record, a WKT CRS record and records of other kinds
GeoTiffVlr == Vlr("LASF_Projection", 34735, <<1>>)
InputWktVlr == Vlr("LASF_Projection", 2112, <<1, 2, 3>>)
OtherVlrA == Vlr("Other", 7, <<1, 2>>)
OtherVlrB == Vlr("Other", 8, <<1>>)

\* the header of the writers of Spec: LAS 1.4, format 6, a GeoTIFF CRS
StandardInput == InputHeader(<<1, 4>>, <<6, 30>>, <<GeoTiffVlr>>, <<>>)

\* (format byte, record length): the formats 0 to 10, format 1 and format 6
\* with compression bits set, format 3 with two extra bytes
InputFormats ==
    { <<0, 20>>, <<1, 28>>, <<2, 26>>, <<3, 34>>, <<4, 57>>, <<5, 63>>, <<6, 30>>,
      <<7, 36>>, <<8, 38>>, <<9, 59>>, <<10, 67>>, <<129, 28>>, <<198, 30>>, <<3, 36>> }

\* VLR lists: a GeoTIFF CRS; a WKT CRS; records to forward among records of
\* a COPC file, user ids in upper case; waveform descriptors at the ends of
\* their range and the GeoTIFF records; records to forward only; none
InputVlrLists ==
    { <<GeoTiffVlr>>,
      <<InputWktVlr>>,
      <<OtherVlrA, Vlr("COPC", 1, <<>>), InputWktVlr, Vlr("LASzip Encoded", 22204, <<>>),
        OtherVlrB, Vlr("copc", 1000, <<>>)>>,
      <<Vlr("LASF_Spec", 354, <<>>), Vlr("LASF_Spec", 355, <<1>>),
        Vlr("LASF_Spec", 65535, <<>>), Vlr("LASF_Spec", 100, <<>>),
        Vlr("LASF_Spec", 99, <<1, 2>>), Vlr("LASF_Projection", 34737, <<>>),
        Vlr("lasf_projection", 34736, <<>>), GeoTiffVlr>>,
      <<OtherVlrB, OtherVlrA>>,
      <<>> }

\* EVLR lists: none; one to forward; a WKT CRS and a hierarchy; two to forward
InputEvlrLists ==
    { <<>>, <<OtherVlrA>>, <<InputWktVlr, Vlr("copc", 1000, <<>>)>>, <<OtherVlrB, OtherVlrA>> }

InputHeaders ==
    { InputHeader(v, f, vlrs, evlrs) :
          v \in {<<1, 2>>, <<1, 4>>}, f \in InputFormats,
          vlrs \in InputVlrLists, evlrs \in InputEvlrLists }

Pt(x, y, z, t, m) == [x |-> x, y |-> y, z |-> z, gps_time |-> t, matches |-> m]
\* the points an input iterator can yield: the minimum corner of the root
\* cube; a point on a minimum face, a maximum face and the plane z = 4 that
\* the children of the root share; a point outside the cube; a point whose
\* attributes do not match the format
InputPoints ==
    { Pt(0, 0, -4, 2, TRUE), Pt(0, 16, 4, 1, TRUE),
      Pt(0, 0, 14, 3, TRUE), Pt(8, 8, 4, 2, FALSE) }

(***************************************************************************)
(* Helpers                                                                 *)
(***************************************************************************)
Last(s) == s[Len(s)]
Front(s) == SubSeq(s, 1, Len(s) - 1)
MinOf(S) == CHOOSE m \in S : \A o \in S : m <= o
MaxOf(S) == CHOOSE m \in S : \A o \in S : m >= o
RECURSIVE SumSeq(_)
SumSeq(s) == IF s = <<>> THEN 0 ELSE s[1] + SumSeq(Tail(s))
\* the sequences that list every element of S once
RECURSIVE Perms(_)
Perms(S) == IF S = {} THEN {<<>>}
            ELSE UNION {{<<x>> \o q : q \in Perms(S \ {x})} : x \in S}

(***************************************************************************)
(* VoxelKey (copc.rs)                                                      *)
(***************************************************************************)
Key(l, x, y, z) == [level |-> l, x |-> x, y |-> y, z |-> z]
RootKey == Key(0, 0, 0, 0)
NoKey == Key(-1, 0, 0, 0)

\* v << 1 on an i32: the bit shifted out is lost, bit 30 becomes the sign
shl1(v) ==
    IF v >= 1073741824 THEN (v - 1073741824) * 2 + (-2147483647 - 1)
    ELSE IF v < -1073741824 THEN ((v + 1073741824) * 2 + 2147483647) + 1
    ELSE 2 * v

\* VoxelKey::child: (v << 1) | bit
child_zy(key, dir) ==
    Key(key.level + 1,
        shl1(key.x) + (dir % 2),
        shl1(key.y) + ((dir \div 4) % 2),
        shl1(key.z) + ((dir \div 2) % 2))
child(key, dir) ==
    Key(key.level + 1,
        shl1(key.x) + (dir % 2),
        shl1(key.y) + ((dir \div 2) % 2),
        shl1(key.z) + ((dir \div 4) % 2))

\* VoxelKey::children: directions 0..7 in order
children_upper(key) == [i \in 1..7 |-> child(key, i)]
children(key) == [i \in 1..8 |-> child(key, i - 1)]

\* VoxelKey::bounds
bounds(key, root_bounds) ==
    LET side_size == (root_bounds.max.x - root_bounds.min.x) \div (2 ^ key.level)
    IN  [min |-> [x |-> root_bounds.min.x + key.x * side_size,
                  y |-> root_bounds.min.y + key.y * side_size,
                  z |-> root_bounds.min.z + key.z * side_size],
         max |-> [x |-> root_bounds.min.x + (key.x + 1) * side_size,
                  y |-> root_bounds.min.y + (key.y + 1) * side_size,
                  z |-> root_bounds.min.z + (key.z + 1) * side_size]]

\* OctreeNode::is_full
is_full_above(point_count, max_size) == point_count > max_size
is_full(point_count, max_size) == point_count >= max_size

\* writer.rs bounds_contains_point
bounds_contains_point_any(b, p) == TRUE
bounds_contains_point(b, p) ==
    ~(b.max.x < p.x \/ b.max.y < p.y \/ b.max.z < p.z
      \/ b.min.x > p.x \/ b.min.y > p.y \/ b.min.z > p.z)

\* las::Transform::inverse and ::direct of the header transforms
\* (round() rounds half away from zero)
Inverse(w) ==
    LET d == w - Transforms.offset
        s == Transforms.scale
    IN  IF d >= 0 THEN (2 * d + s) \div (2 * s) ELSE -((s - 2 * d) \div (2 * s))
Direct(r) == r * Transforms.scale + Transforms.offset

\* las::Point::into_raw and las::Point::new
into_raw(p) == [x |-> Inverse(p.x), y |-> Inverse(p.y), z |-> Inverse(p.z), gps_time |-> p.gps_time]
from_raw(r) == [x |-> Direct(r.x), y |-> Direct(r.y), z |-> Direct(r.z), gps_time |-> r.gps_time]

(***************************************************************************)
(* The sink: a seekable byte stream, kept as the records written to it     *)
(***************************************************************************)
Seg(kind, len, payload) == [kind |-> kind, len |-> len, payload |-> payload]
\* write at the current position, replacing what started there
SinkWrite(s, seg) == [pos |-> s.pos + seg.len, data |-> (s.pos :> seg) @@ s.data]
SinkSeek(s, to) == [s EXCEPT !.pos = to]

(***************************************************************************)
(* CopcCompressor (compressor.rs)                                          *)
(***************************************************************************)
LazChunkSize(chunk) == LazChunkOverhead + LazBytesPerPoint * Len(chunk)
ChunkTableSize(table) == 8 + 2 * Len(table)
EmptyChunkEntry == [point_count |-> 0, byte_count |-> 0]

\* CopcCompressor::new
CompressorNew(s) ==
    [start_pos |-> s.pos, chunk_start_pos |-> 0, chunk_table |-> <<>>,
     current_chunk_entry |-> EmptyChunkEntry]

\* reserve_offset_to_chunk_table, on a pair [c, s] of compressor and sink
reserve_offset_to_chunk_table(cs) ==
    [c |-> [cs.c EXCEPT !.start_pos = cs.s.pos,
                        !.chunk_start_pos = cs.s.pos + ChunkTableOffsetLen],
     s |-> SinkWrite(cs.s, Seg("chunk_table_offset", ChunkTableOffsetLen, -1))]

\* update_chunk_table
update_chunk_table_unmoved(cs) ==
    LET entry == [cs.c.current_chunk_entry EXCEPT
                      !.byte_count = cs.s.pos - cs.c.chunk_start_pos]
    IN  [c |-> [cs.c EXCEPT !.current_chunk_entry = entry,
                            !.chunk_table = Append(@, entry)],
         s |-> cs.s]
update_chunk_table(cs) ==
    LET entry == [cs.c.current_chunk_entry EXCEPT
                      !.byte_count = cs.s.pos - cs.c.chunk_start_pos]
    IN  [c |-> [cs.c EXCEPT !.current_chunk_entry = entry,
                            !.chunk_start_pos = cs.s.pos,
                            !.chunk_table = Append(@, entry)],
         s |-> cs.s]

\* the offset finish_current_chunk returns with the chunk-table entry
ChunkOffset(old_chunk_start_pos, start_pos) == old_chunk_start_pos + start_pos

\* the current_chunk_entry finish_current_chunk leaves for the next chunk
NextChunkEntry_kept(written) == written
NextChunkEntry(written) == EmptyChunkEntry

\* compress_one's first step, taken before the first point of the stream
Reserved_always(cs, chunk) == reserve_offset_to_chunk_table(cs)
Reserved(cs, chunk) ==
    IF chunk # <<>> /\ cs.c.chunk_start_pos = 0 THEN reserve_offset_to_chunk_table(cs) ELSE cs

\* compress_many: compress_one over the points of the chunk; the layered
\* record compressor holds the bytes until the chunk is finished
compress_many(cs, chunk) ==
    [c |-> [cs.c EXCEPT !.current_chunk_entry.point_count = @ + Len(chunk)], s |-> cs.s]

\* record_compressor.done() of finish_current_chunk: the chunk's bytes reach the stream
FlushChunk(cs, chunk) ==
    [c |-> cs.c, s |-> SinkWrite(cs.s, Seg("chunk", LazChunkSize(chunk), chunk))]

\* what finish_current_chunk returns and leaves: `cs` at its call, `u` after
\* its update_chunk_table
FinishResult(cs, u) ==
    [c |-> [u.c EXCEPT !.current_chunk_entry = NextChunkEntry(@)],
     s |-> u.s,
     entry |-> u.c.current_chunk_entry,
     offset |-> ChunkOffset(cs.c.chunk_start_pos, cs.c.start_pos)]

\* finish_current_chunk, for the chunk compressed since the last one
finish_current_chunk(cs, chunk) == FinishResult(cs, update_chunk_table(FlushChunk(cs, chunk)))

\* compress_chunk: [c, s, entry, offset]
compress_chunk(cs, chunk) ==
    finish_current_chunk(compress_many(Reserved(cs, chunk), chunk), chunk)

\* the tail of done: the offset of the chunk table is written at start_pos,
\* the chunk table at the end
WriteChunkTable(u) ==
    LET start_of_chunk_table_pos == u.s.pos
    IN  [c |-> u.c,
         s |-> SinkWrite(
                   SinkSeek(SinkWrite(SinkSeek(u.s, u.c.start_pos),
                                      Seg("chunk_table_offset", ChunkTableOffsetLen,
                                          start_of_chunk_table_pos)),
                            start_of_chunk_table_pos),
                   Seg("chunk_table", ChunkTableSize(u.c.chunk_table), u.c.chunk_table))]

\* done
compressor_done(cs) ==
    WriteChunkTable(update_chunk_table(
        IF cs.c.chunk_start_pos = 0 THEN reserve_offset_to_chunk_table(cs) ELSE cs))

(***************************************************************************)
(* CopcWriter (writer.rs)                                                  *)
(***************************************************************************)
\* the root cube CopcWriter::new derives from the header bounds
CenterPoint ==
    [x |-> (HeaderBounds.min.x + HeaderBounds.max.x) \div 2,
     y |-> (HeaderBounds.min.y + HeaderBounds.max.y) \div 2,
     z |-> (HeaderBounds.min.z + HeaderBounds.max.z) \div 2]
Halfsize ==
    MaxOf({CenterPoint.x - HeaderBounds.min.x, CenterPoint.y - HeaderBounds.min.y,
           CenterPoint.z - HeaderBounds.min.z})
\* the cube of side 2 * halfsize around center: root_node.bounds of the writer,
\* the root_bounds of the reader's load_octree_for_query
CubeAround(center, halfsize) ==
    [min |-> [x |-> center.x - halfsize, y |-> center.y - halfsize, z |-> center.z - halfsize],
     max |-> [x |-> center.x + halfsize, y |-> center.y + halfsize, z |-> center.z + halfsize]]
RootBounds == CubeAround(CenterPoint, Halfsize)

\* the arguments taken as they are
NodeSizes_asgiven(min_size, max_size) == [min |-> min_size, max |-> max_size]

\* the node sizes CopcWriter::new derives from its arguments
NodeSizes(min_size, max_size) ==
    [min |-> IF min_size < 1 THEN MIN_NODE_SIZE_DEFAULT ELSE min_size,
     max |-> IF max_size < 1 THEN MAX_NODE_SIZE_DEFAULT ELSE max_size]

CopcVlrLen == VlrHeaderLen + CopcInfoLen

\* CopcInfo::default()
\* an f64 that is the quotient num / den; den = 0 with num > 0 is +infinity
Ratio(num, den) == [num |-> num, den |-> den]

DefaultCopcInfo ==
    [center |-> [x |-> 0, y |-> 0, z |-> 0], halfsize |-> 0, spacing |-> Ratio(0, 1),
     gpstime_minimum |-> 0, gpstime_maximum |-> 0,
     root_hier_offset |-> 0, root_hier_size |-> 0]

\* CopcInfo::into_vlr, as the record in the stream
CopcInfoVlr(ci) == Seg("vlr", CopcVlrLen, Vlr("copc", 1, ci))
\* the LAZ VLR CopcWriter::new builds, and the WKT CRS VLR it forwards or makes
LazVlr == Seg("vlr", LazVlrLen, Vlr("laszip encoded", 22204, <<>>))
WktVlr == Seg("vlr", WktVlrLen, Vlr("LASF_Projection", 2112, <<>>))

\* str::to_lowercase on a user id
to_lowercase_exact(user_id) == user_id

to_lowercase(user_id) ==
    CASE user_id = "COPC" -> "copc"
      [] user_id = "LASzip Encoded" -> "laszip encoded"
      [] user_id = "LASF_Projection" -> "lasf_projection"
      [] user_id = "LASF_Spec" -> "lasf_spec"
      [] user_id = "Other" -> "other"
      [] user_id = "Laz" -> "laz"
      [] OTHER -> user_id

\* a forwarded record as it is in the stream; `kind` is "vlr" or "evlr"
RecordSeg(kind, vlr) ==
    Seg(kind, (IF kind = "evlr" THEN EvlrHeaderLen ELSE VlrHeaderLen) + Len(vlr.data), vlr)

\* the arm ("lasf_projection", 2112) of the matches of CopcWriter::new
IsWkt(vlr) == to_lowercase(vlr.user_id) = "lasf_projection" /\ vlr.record_id = 2112

\* the arms with the waveform descriptors up to record id 355
NotForwarded_upto(user_id, record_id) ==
    \/ user_id = "lasf_projection" /\ record_id \in 34735..34737
    \/ user_id = "copc" /\ record_id \in {1, 1000}
    \/ user_id = "laszip encoded" /\ record_id = 22204
    \/ user_id = "lasf_spec" /\ (record_id \in 100..355 \/ record_id = 65535)

\* the arms of the matches of CopcWriter::new that do not forward a record
NotForwarded(user_id, record_id) ==
    \/ user_id = "lasf_projection" /\ record_id \in 34735..34737
    \/ user_id = "copc" /\ record_id \in {1, 1000}
    \/ user_id = "laszip encoded" /\ record_id = 22204
    \/ user_id = "lasf_spec" /\ (record_id \in 100..354 \/ record_id = 65535)

\* the records the loops over header.vlrs() and header.evlrs() forward
Forward(vlrs) ==
    SelectSeq(vlrs, LAMBDA v : ~NotForwarded(to_lowercase(v.user_id), v.record_id))

has_wkt_vlr(h) ==
    \/ \E i \in 1..Len(h.vlrs) : IsWkt(h.vlrs[i])
    \/ \E i \in 1..Len(h.evlrs) : IsWkt(h.evlrs[i])

\* las_crs::parse_las_crs finds a CRS in the GeoTIFF key directory
HasGeoTiffCrs(h) ==
    \/ \E i \in 1..Len(h.vlrs) :
           to_lowercase(h.vlrs[i].user_id) = "lasf_projection" /\ h.vlrs[i].record_id = 34735
    \/ \E i \in 1..Len(h.evlrs) :
           to_lowercase(h.evlrs[i].user_id) = "lasf_projection" /\ h.evlrs[i].record_id = 34735

\* builder.vlrs and builder.evlrs of CopcWriter::new, as the records in the
\* stream: the blank COPC info, the LAZ VLR, the forwarded VLRs, and the WKT
\* VLR made from the GeoTIFF CRS when there is no WKT record
BuilderVlrs(h) ==
    <<CopcInfoVlr(DefaultCopcInfo), LazVlr>>
    \o [i \in 1..Len(Forward(h.vlrs)) |-> RecordSeg("vlr", Forward(h.vlrs)[i])]
    \o (IF has_wkt_vlr(h) THEN <<>> ELSE <<WktVlr>>)
BuilderEvlrs(h) ==
    [i \in 1..Len(Forward(h.evlrs)) |-> RecordSeg("evlr", Forward(h.evlrs)[i])]

\* the match on the point data record format without its two leftmost bits
upgrade_pdrf(pdrf) ==
    CASE pdrf = 1 -> "From1to6"
      [] pdrf = 3 -> "From3to7"
      [] pdrf \in 6..8 -> "NoUpgrade"
      [] OTHER -> "InvalidPointFormat"

\* what is added to the format byte and to the record length
FormatStep(upgrade) ==
    CASE upgrade = "From1to6" -> 5
      [] upgrade = "From3to7" -> 4
      [] OTHER -> 0
\* the upgrade that leaves the record length as it was
LengthStep_none(upgrade) == 0
LengthStep(upgrade) == IF upgrade = "NoUpgrade" THEN 0 ELSE 2

\* byte | 0b11000000
SetCompressBits(byte) == (byte % 64) + 192

\* the header CopcWriter::new builds from the header h it was given
UpgradedHeader(h, upgrade) ==
    [number_of_points |-> 0,
     version |-> <<1, 4>>,
     point_data_record_format |->
         SetCompressBits((h.point_data_record_format + FormatStep(upgrade)) % 256),
     point_data_record_length |-> h.point_data_record_length + LengthStep(upgrade),
     vlrs |-> BuilderVlrs(h),
     evlrs |-> BuilderEvlrs(h)]

\* the header of a writer that was not created
NoHeader ==
    [number_of_points |-> 0, version |-> <<0, 0>>, point_data_record_format |-> 0,
     point_data_record_length |-> 0, vlrs |-> <<>>, evlrs |-> <<>>]

\* what CopcWriter::new returns for the node sizes and the header h
NewOutcome(sizes, h) ==
    IF sizes.min >= sizes.max THEN "InvalidNodeSize"
    ELSE IF ~has_wkt_vlr(h) /\ ~HasGeoTiffCrs(h) THEN "LasCrsError"
    ELSE IF upgrade_pdrf(h.point_data_record_format % 64) = "InvalidPointFormat"
    THEN "InvalidPointFormat"
    ELSE "Ok"

\* header.into_raw(): the offset to the point data and the EVLR descriptor
\* (<<>> is None, else <<start_of_first_evlr, number_of_evlrs>>), which las
\* derives from the header's VLRs, point count and EVLRs
offset_to_point_data(h) == LasHeaderLen + SumSeq([i \in 1..Len(h.vlrs) |-> h.vlrs[i].len])
IntoRawEvlr(h) ==
    IF h.evlrs = <<>> THEN <<>>
    ELSE <<offset_to_point_data(h) + h.number_of_points * h.point_data_record_length,
           Len(h.evlrs)>>

\* the raw header as the record in the stream
RawHeader(h, evlr) ==
    Seg("header", LasHeaderLen,
        [number_of_points |-> h.number_of_points,
         number_of_variable_length_records |-> Len(h.vlrs),
         evlr |-> evlr,
         version |-> h.version,
         point_data_record_format |-> h.point_data_record_format,
         point_data_record_length |-> h.point_data_record_length])

\* records written one after the other
RECURSIVE WriteSegs(_, _)
WriteSegs(s, segs) ==
    IF segs = <<>> THEN s ELSE WriteSegs(SinkWrite(s, segs[1]), Tail(segs))

\* the sink after CopcWriter::new wrote the header h and its VLRs at `s0`
NewSink(s0, h) ==
    WriteSegs(SinkWrite([pos |-> s0, data |-> <<>>], RawHeader(h, IntoRawEvlr(h))), h.vlrs)

\* the arm of the GPS-time update taken when the time is not below the minimum
GpsElse(ci, t) == IF t > ci.gpstime_maximum THEN [ci EXCEPT !.gpstime_maximum = t] ELSE ci

\* the gpstime_minimum / gpstime_maximum update of add_point_*
UpdateGps(ci, t) ==
    IF t < ci.gpstime_minimum THEN [ci EXCEPT !.gpstime_minimum = t] ELSE GpsElse(ci, t)

HasChildren(tree, key) == child(key, 0) \in DOMAIN tree
AddChildren(tree, key) == tree @@ [k \in {child(key, d) : d \in 0..7} |-> 0]

\* the node walk of add_point_greedy: `stack` is nodes_to_check
RECURSIVE GreedyWalk(_, _, _)
GreedyWalk(tree, stack, point) ==
    IF stack = <<>> THEN [tree |-> tree, node_key |-> NoKey, write_chunk |-> FALSE]
    ELSE LET node == Last(stack) IN
         IF ~bounds_contains_point(bounds(node, RootBounds), point)
         THEN GreedyWalk(tree, Front(stack), point)
         ELSE IF is_full(tree[node], max_node_size)
         THEN LET t2 == IF HasChildren(tree, node) THEN tree ELSE AddChildren(tree, node)
              IN  GreedyWalk(t2, Front(stack) \o children(node), point)
         ELSE [tree |-> [tree EXCEPT ![node] = @ + 1],
               node_key |-> node,
               write_chunk |-> is_full(tree[node] + 1, max_node_size)]

\* the node walk of add_point_stochastic: collects node_candidates
RECURSIVE StochasticWalk(_, _, _, _, _)
StochasticWalk(tree, stack, point, expected_levels, cands) ==
    IF stack = <<>> THEN [tree |-> tree, node_candidates |-> cands]
    ELSE LET node == Last(stack) IN
         IF ~bounds_contains_point(bounds(node, RootBounds), point)
         THEN StochasticWalk(tree, Front(stack), point, expected_levels, cands)
         ELSE LET t2 == IF ~HasChildren(tree, node) /\ node.level < expected_levels
                        THEN AddChildren(tree, node) ELSE tree
                  c2 == IF ~is_full(tree[node], max_node_size)
                        THEN Append(cands, node) ELSE cands
                  st == IF HasChildren(t2, node)
                        THEN Front(stack) \o children(node) ELSE Front(stack)
              IN  StochasticWalk(t2, st, point, expected_levels, c2)

\* expected_levels of write_stochastic:
\* ceil((log2(3 n / max + 1) - 2) / 2) as usize, the least l >= 0 with
\* 4^(l+1) * max >= 3 n + max
RECURSIVE LeastLevel(_, _, _)
LeastLevel(l, n, max) == IF (4 ^ (l + 1)) * max >= 3 * n + max THEN l ELSE LeastLevel(l + 1, n, max)
ExpectedLevels(n, max) == LeastLevel(0, n, max)

\* get_random_weighted_index over the candidates' levels, for random = r / RandDen;
\* the index is 1-based here.  The weights 4^l / sum are the same whichever
\* level the exponents are taken from: the code takes levels[0], the lowest
\* level is taken here so that the weights' numerators are integers
get_random_weighted_index(levels, r) ==
    LET n   == Len(levels)
        low == MinOf({levels[i] : i \in 1..n})
        u   == [i \in 1..n |-> 4 ^ (levels[i] - low)]
        tot == SumSeq(u)
        hit == {i \in 1..(n - 1) : u[i] * RandDen <= r * tot /\ r * tot <= u[i + 1] * RandDen}
    IN  IF hit = {} THEN n ELSE MinOf(hit)

\* the writer's mutable fields as one value
Writer == [header |-> header, copc_info |-> copc_info, octree |-> octree,
           open_chunks |-> open_chunks, hierarchy |-> hierarchy,
           compressor |-> compressor, sink |-> sink]

\* when add_point_stochastic writes the chosen node's chunk
StochasticWriteChunk(point_count, max_size) == point_count > max_size

\* the compressor and the sink of the writer as the compressor's pair
CompressorOf(w) == [c |-> w.compressor, s |-> w.sink]

\* the writer after compress_chunk returned cc for the chunk of `key`: the
\* hierarchy entry is pushed
PushEntry(w, key, cc) ==
    [w EXCEPT !.compressor = cc.c,
              !.sink = cc.s,
              !.hierarchy = Append(@, [key |-> key,
                                       offset |-> cc.offset,
                                       byte_size |-> cc.entry.byte_count,
                                       point_count |-> cc.entry.point_count])]

\* the raw point is appended to the open chunk of the node
Buffered(w, node_key, point) ==
    [w EXCEPT !.open_chunks =
        IF node_key \in DOMAIN @
        THEN [@ EXCEPT ![node_key] = Append(@, into_raw(point))]
        ELSE (node_key :> <<into_raw(point)>>) @@ @]

\* the open chunk of the node is removed, compressed and its entry pushed
FlushNode_kept(w, node_key) ==
    PushEntry(w, node_key, compress_chunk(CompressorOf(w), w.open_chunks[node_key]))
FlushNode(w, node_key) ==
    PushEntry([w EXCEPT !.open_chunks = [k \in DOMAIN @ \ {node_key} |-> @[k]]],
              node_key,
              compress_chunk(CompressorOf(w), w.open_chunks[node_key]))

\* the tail shared by add_point_greedy and add_point_stochastic: append the
\* raw point to the node's open chunk and, if write_chunk, compress the chunk
\* and push its hierarchy entry
StorePoint(w, node_key, point, write_chunk) ==
    IF write_chunk THEN FlushNode(Buffered(w, node_key, point), node_key)
    ELSE Buffered(w, node_key, point)

\* header.add_point
HeaderAddPoint_twice(h) == [h EXCEPT !.number_of_points = @ + 2]
HeaderAddPoint(h) == [h EXCEPT !.number_of_points = @ + 1]

\* the head of add_point_greedy: the header counts the point, the GPS time
\* range is updated
Counted(w, point) ==
    [w EXCEPT !.header = HeaderAddPoint(@),
              !.copc_info = UpdateGps(@, point.gps_time)]

\* add_point_greedy after its node walk returned g: [w, err]
PlaceGreedy(w, g, point) ==
    IF g.node_key = NoKey
    THEN [w |-> [w EXCEPT !.octree = g.tree], err |-> "PointNotAddedToAnyNode"]
    ELSE [w |-> StorePoint([w EXCEPT !.octree = g.tree], g.node_key, point, g.write_chunk),
          err |-> "Ok"]

\* add_point_greedy: [w, err]
add_point_greedy(w, point) ==
    PlaceGreedy(Counted(w, point), GreedyWalk(w.octree, <<RootKey>>, point), point)

\* add_point_stochastic once the entry of node_key is chosen: [w, err]
PlaceChosen(w, node_key, point) ==
    [w |-> StorePoint([Counted(w, point) EXCEPT !.octree[node_key] = @ + 1],
                      node_key, point,
                      StochasticWriteChunk(w.octree[node_key] + 1, max_node_size)),
     err |-> "Ok"]

\* add_point_stochastic after its node walk, for random = r / RandDen: [w, err]
PlaceStochastic(w, node_candidates, point, r) ==
    IF node_candidates = <<>> THEN add_point_greedy(w, point)
    ELSE PlaceChosen(w,
                     node_candidates[get_random_weighted_index(
                         [i \in 1..Len(node_candidates) |-> node_candidates[i].level], r)],
                     point)

\* the writer with the octree the node walk left
AfterWalk(w, sw, point, r) ==
    PlaceStochastic([w EXCEPT !.octree = sw.tree], sw.node_candidates, point, r)

\* add_point_stochastic for random = r / RandDen: [w, err]
add_point_stochastic(w, point, expected_levels, r) ==
    AfterWalk(w, StochasticWalk(w.octree, <<RootKey>>, point, expected_levels, <<>>), point, r)

\* HierarchyPage::byte_size
byte_size(entries) == Len(entries) * EntryLen

\* the drain loop of close over the open chunks in the order `order`: [w]
RECURSIVE DrainOpenChunks(_, _)
DrainOpenChunks(w, order) ==
    IF order = <<>> THEN [w EXCEPT !.open_chunks = <<>>]
    ELSE IF w.open_chunks[order[1]] = <<>> THEN DrainOpenChunks(w, Tail(order))
    ELSE DrainOpenChunks(
             PushEntry(w, order[1], compress_chunk(CompressorOf(w), w.open_chunks[order[1]])),
             Tail(order))

\* HierarchyPage::into_evlr, as the record in the stream
HierarchyEvlr(entries) ==
    Seg("evlr", EvlrHeaderLen + byte_size(entries), Vlr("copc", 1000, entries))

\* the first check of close
CloseGuard(closed) == closed

\* the second check of close
NoPoints_negative(h) == h.number_of_points < 0
NoPoints(h) == h.number_of_points < 1

\* the COPC info with the offset of the EVLR itself
ClosedCopcInfo_record(w, start_of_first_evlr) ==
    [w.copc_info EXCEPT !.spacing = Ratio(2 * w.copc_info.halfsize, w.octree[RootKey]),
                        !.root_hier_offset = start_of_first_evlr,
                        !.root_hier_size = byte_size(w.hierarchy)]

\* the COPC info close writes, the hierarchy EVLR starting at start_of_first_evlr
ClosedCopcInfo(w, start_of_first_evlr) ==
    [w.copc_info EXCEPT !.spacing = Ratio(2 * w.copc_info.halfsize, w.octree[RootKey]),
                        !.root_hier_offset = start_of_first_evlr + EvlrHeaderLen,
                        !.root_hier_size = byte_size(w.hierarchy)]

\* the EVLR descriptor of the header close rewrites: the descriptor of
\* header.into_raw() when it has one (start_of_first_evlr and number_of_evlrs
\* are set in `e`, a copy of it), else one EVLR at start_of_first_evlr
ClosedEvlr(raw_evlr, start_of_first_evlr) ==
    IF raw_evlr # <<>> THEN raw_evlr ELSE <<start_of_first_evlr, 1>>

\* the sink after close wrote, at the end of the stream s, the copc/1000 EVLR
\* and the EVLRs of the header, then rewrote the header and the COPC info VLR
\* and went back to the start
FinalSink(w, s) ==
    SinkSeek(
        SinkWrite(
            SinkWrite(
                SinkSeek(
                    WriteSegs(SinkWrite(s, HierarchyEvlr(w.hierarchy)), w.header.evlrs),
                    start),
                RawHeader(w.header, ClosedEvlr(IntoRawEvlr(w.header), s.pos))),
            CopcInfoVlr(ClosedCopcInfo(w, s.pos))),
        start)

\* close after the compressor is done (d): [w, closed, err]
Finalise(w, d) ==
    [w |-> [w EXCEPT !.compressor = d.c,
                     !.copc_info = ClosedCopcInfo(w, d.s.pos),
                     !.sink = FinalSink(w, d.s)],
     closed |-> TRUE, err |-> "Ok"]

\* close after the open chunks are drained
AfterDrain(w) == Finalise(w, compressor_done(CompressorOf(w)))

\* close, with the open chunks drained in the order `order` (a HashMap's
\* drain order is arbitrary): [w, closed, err]
close(w, closed, order) ==
    IF CloseGuard(closed) THEN [w |-> w, closed |-> closed, err |-> "ClosedWriter"]
    ELSE IF NoPoints(w.header)
    THEN [w |-> w, closed |-> closed, err |-> "EmptyCopcFile"]
    ELSE AfterDrain(DrainOpenChunks(w, order))

(***************************************************************************)
(* History of the inputs                                                   *)
(***************************************************************************)
WorldOf(p) == [x |-> p.x, y |-> p.y, z |-> p.z, gps_time |-> p.gps_time]
WorldPoints == {WorldOf(p) : p \in InputPoints}
EmptyBag == [q \in WorldPoints |-> 0]

\* a point of the closed root cube, faces included
InClosedRootCube(p) ==
    /\ RootBounds.min.x <= p.x /\ p.x <= RootBounds.max.x
    /\ RootBounds.min.y <= p.y /\ p.y <= RootBounds.max.y
    /\ RootBounds.min.z <= p.z /\ p.z <= RootBounds.max.z
Acceptable(p) == p.matches /\ InClosedRootCube(p)

NothingFed == [points |-> EmptyBag, bad_format |-> FALSE, outside |-> FALSE,
               first |-> "none", ok |-> 0, min_size |-> 0, max_size |-> 0, header |-> <<>>]

\* fed.points: the acceptable points given to the writer so far
\* fed.bad_format, fed.outside: whether the running (or last) write call was
\* given a point failing the format check, a point outside the root cube
\* fed.first: what the first rejected point of that call failed
\* fed.ok: the number of acceptable points given so far
\* fed.min_size, fed.max_size, fed.header: the arguments CopcWriter::new was
\* given
Feed(f, p) ==
    [points |-> IF Acceptable(p) THEN [f.points EXCEPT ![WorldOf(p)] = @ + 1] ELSE f.points,
     bad_format |-> f.bad_format \/ ~p.matches,
     outside |-> f.outside \/ ~InClosedRootCube(p),
     first |-> IF f.first # "none" \/ Acceptable(p) THEN f.first
               ELSE IF ~p.matches THEN "format" ELSE "bounds",
     ok |-> IF Acceptable(p) THEN f.ok + 1 ELSE f.ok,
     min_size |-> f.min_size, max_size |-> f.max_size, header |-> f.header]

(***************************************************************************)
(* Initial state: the state CopcWriter::new returns                        *)
(***************************************************************************)
\* iter.state: "none" (no iterator), "active", "ended" (next returned None),
\* "panic" (an unwrap in points or next failed)
\* iter.lod, iter.query, iter.selected, iter.seeks, iter.yielded are history:
\* the selection asked for, the nodes load_octree_for_query returned, the
\* offsets given to source_seek and the points returned by next so far
NoIter == [state |-> "none", nodes |-> <<>>, node_points_left |-> 0,
           total_points_left |-> 0, raw_bounds |-> <<>>, chunk |-> <<>>,
           lod |-> <<>>, query |-> <<>>, selected |-> <<>>, seeks |-> <<>>,
           yielded |-> <<>>]

ReaderInit ==
    /\ reader = "none"
    /\ r_start = 0
    /\ r_copc_info = <<>>
    /\ hierarchy_entries = <<>>
    /\ iter = NoIter

\* no call of from_path and of the entry functions was made
NoPath == path = <<>> /\ created = FALSE
NoPage == hpage = <<>> /\ buffer = <<>> /\ read_back = <<>>
NoInfo == info = <<>> /\ info_vlr = <<>> /\ info_back = <<>>
NoKeys == vkey = <<>> /\ vchildren = <<>> /\ vbounds = <<>>
NoSeek == dsource = <<>> /\ dec = <<>>
NoCalls == NoPath /\ NoPage /\ NoInfo /\ NoKeys /\ NoSeek

\* what CopcWriter::new(write, h, args[1], args[2]) returns, the stream
\* being at position s0: the outcome and the fields of the writer
NewWriterOn(args, s0, h, outcome, new_header, new_sink) ==
    [new_result |-> outcome,
     is_closed |-> FALSE,
     start |-> s0,
     min_node_size |-> NodeSizes(args[1], args[2]).min,
     max_node_size |-> NodeSizes(args[1], args[2]).max,
     header |-> new_header,
     copc_info |-> [center |-> CenterPoint, halfsize |-> Halfsize,
                    spacing |-> Ratio(0, 1),
                    gpstime_minimum |-> F64_MAX, gpstime_maximum |-> -F64_MAX,
                    root_hier_offset |-> 0, root_hier_size |-> 0],
     octree |-> (RootKey :> 0),
     open_chunks |-> <<>>,
     hierarchy |-> <<>>,
     sink |-> new_sink,
     compressor |-> CompressorNew(new_sink),
     fed |-> [NothingFed EXCEPT !.min_size = args[1], !.max_size = args[2], !.header = h]]

NewWriterWith(args, s0, h, outcome, new_header) ==
    NewWriterOn(args, s0, h, outcome, new_header,
                IF outcome = "Ok" THEN NewSink(s0, new_header) ELSE [pos |-> s0, data |-> <<>>])

NewWriterAs(args, s0, h, outcome) ==
    NewWriterWith(args, s0, h, outcome,
                  IF outcome = "Ok"
                  THEN UpgradedHeader(h, upgrade_pdrf(h.point_data_record_format % 64))
                  ELSE NoHeader)

NewWriter(args, s0, h) ==
    NewWriterAs(args, s0, h, NewOutcome(NodeSizes(args[1], args[2]), h))

\* the state in which CopcWriter::new returned nw
NewState(nw) ==
    /\ new_result = nw.new_result
    /\ is_closed = nw.is_closed
    /\ start = nw.start
    /\ min_node_size = nw.min_node_size
    /\ max_node_size = nw.max_node_size
    /\ header = nw.header
    /\ copc_info = nw.copc_info
    /\ octree = nw.octree
    /\ open_chunks = nw.open_chunks
    /\ hierarchy = nw.hierarchy
    /\ sink = nw.sink
    /\ compressor = nw.compressor
    /\ pc = "idle"
    /\ num_points = 0
    /\ idx = 0
    /\ invalid_points = "Ok"
    /\ result = "none"
    /\ dropped = FALSE
    /\ fed = nw.fed
    /\ ReaderInit
    /\ NoCalls

\* CopcWriter::new on the node sizes and headers given
InitOf(sizes, headers) ==
    \E args \in sizes, s0 \in Starts, h \in headers : NewState(NewWriter(args, s0, h))

Init == InitOf(NodeSizeArgs, {StandardInput})

(***************************************************************************)
(* CopcWriter::write, one step per point of the input iterator             *)
(***************************************************************************)
SetWriter(w) ==
    /\ header' = w.header
    /\ copc_info' = w.copc_info
    /\ octree' = w.octree
    /\ open_chunks' = w.open_chunks
    /\ hierarchy' = w.hierarchy
    /\ compressor' = w.compressor
    /\ sink' = w.sink

\* the first check of write
WriteGuard_unchecked(closed) == FALSE
WriteGuard(closed) == closed

\* write is called with the hint `hint`
WriteBeginOf(hints) ==
    \E hint \in hints :
        /\ new_result = "Ok" /\ ~dropped /\ pc = "idle"
        /\ IF WriteGuard(is_closed)
           THEN /\ result' = "ClosedWriter"
                /\ UNCHANGED <<pc, num_points, idx, invalid_points, fed>>
           ELSE /\ pc' = "writing"
                /\ num_points' = hint
                /\ idx' = 0
                /\ invalid_points' = "Ok"
                /\ result' = "none"
                /\ fed' = [fed EXCEPT !.bad_format = FALSE, !.outside = FALSE, !.first = "none"]
        /\ UNCHANGED <<wvars, dropped, rvars, xvars>>

WriteBegin == WriteBeginOf(WriteHints)

\* the choice made once, from the hint alone
UseGreedy_hint(hint, i) == hint < max_node_size + min_node_size

\* which of the two add functions write applies to input position i
UseGreedy(hint, i) ==
    \/ hint < max_node_size + min_node_size
    \/ hint <= i

\* the values fastrand::f64() can take (times RandDen) for input position i;
\* add_point_greedy draws none
RandomDraws(hint, i) == IF UseGreedy(hint, i) THEN {0} ELSE 0..(RandDen - 1)

\* the invalid_points a rejected point leaves
RejectAttributes_first(inv) == IF inv = "Ok" THEN "PointAttributesDoNotMatch" ELSE inv
RejectAttributes(inv) == "PointAttributesDoNotMatch"
RejectBounds(inv) == IF inv = "Ok" THEN "PointNotInBounds" ELSE inv

\* the loop iteration ends with the result `a` of add_point_*: `?` returns
\* its error from write_greedy / write_stochastic
Placed(a) ==
    /\ SetWriter(a.w)
    /\ invalid_points' = IF a.err = "Ok" THEN invalid_points ELSE a.err
    /\ pc' = IF a.err = "Ok" THEN pc ELSE "aborted"
    /\ UNCHANGED <<new_result, is_closed, start, min_node_size, max_node_size>>

\* one iteration of the loop of write_greedy / write_stochastic on point p
WritePointOf(points) ==
    \E p \in points, r \in RandomDraws(num_points, idx) :
        /\ pc = "writing" /\ idx < MaxPoints
        /\ idx' = idx + 1
        /\ fed' = Feed(fed, p)
        /\ IF ~p.matches
           THEN /\ invalid_points' = RejectAttributes(invalid_points)
                /\ UNCHANGED <<wvars, pc>>
           ELSE IF ~bounds_contains_point(RootBounds, p)
           THEN /\ invalid_points' = RejectBounds(invalid_points)
                /\ UNCHANGED <<wvars, pc>>
           ELSE Placed(IF UseGreedy(num_points, idx)
                       THEN add_point_greedy(Writer, p)
                       ELSE add_point_stochastic(
                                Writer, p, ExpectedLevels(num_points, max_node_size), r))
        /\ UNCHANGED <<num_points, result, dropped, rvars, xvars>>

WritePoint == WritePointOf(InputPoints)

\* write returns after close returned c
WriteReturns(c) ==
    /\ SetWriter(c.w)
    /\ is_closed' = c.closed
    /\ result' = IF c.err # "Ok" THEN c.err ELSE invalid_points

\* the input iterator ends (or add failed): write closes the writer and returns
WriteEnd ==
    \E order \in Perms(DOMAIN open_chunks) :
        /\ pc \in {"writing", "aborted"}
        /\ WriteReturns(close(Writer, is_closed, order))
        /\ pc' = "idle"
        /\ UNCHANGED <<new_result, start, min_node_size, max_node_size,
                       num_points, idx, invalid_points, dropped, fed, rvars, xvars>>

\* drop ends after close returned c: .expect(..) panics on an error
DropCloses(c) ==
    /\ SetWriter(c.w)
    /\ is_closed' = c.closed
    /\ result' = IF c.err # "Ok" THEN "panic" ELSE "dropped"

\* the check of drop: close is called unless the writer is closed
DropGuard_always(closed) == TRUE
DropGuard(closed) == ~closed

\* Drop for CopcWriter: close().expect(..) unless the writer is closed
Drop ==
    \E order \in Perms(DOMAIN open_chunks) :
        /\ new_result = "Ok" /\ ~dropped /\ pc = "idle"
        /\ dropped' = TRUE
        /\ IF DropGuard(is_closed)
           THEN DropCloses(close(Writer, is_closed, order))
           ELSE /\ result' = "dropped"
                /\ UNCHANGED <<header, copc_info, octree, open_chunks, hierarchy,
                               compressor, sink, is_closed>>
        /\ UNCHANGED <<new_result, start, min_node_size, max_node_size,
                       pc, num_points, idx, invalid_points, fed, rvars, xvars>>


(***************************************************************************)
(* CopcReader (reader.rs)                                                  *)
(***************************************************************************)
AtOffset(data, pos, kind) == pos \in DOMAIN data /\ data[pos].kind = kind

\* raw::Vlr::read_from n times from position pos on: [ok, vlrs]; `kind` is
\* "vlr" or "evlr"
RECURSIVE ReadRecords(_, _, _, _, _)
ReadRecords(data, pos, n, kind, acc) ==
    IF n = 0 THEN [ok |-> TRUE, vlrs |-> acc]
    ELSE IF ~AtOffset(data, pos, kind) THEN [ok |-> FALSE, vlrs |-> acc]
    ELSE ReadRecords(data, pos + data[pos].len, n - 1, kind, Append(acc, data[pos].payload))

\* the arm of the match over header.all_vlrs() a record takes
VlrMatches(vlr, user_id, record_id) ==
    to_lowercase(vlr.user_id) = user_id /\ vlr.record_id = record_id

\* what the loop over header.all_vlrs() leaves in copc_info, ept_hierarchy or
\* laszip_vlr: the last record of the arm; <<>> is None
RECURSIVE LastVlr(_, _, _)
LastVlr(vlrs, user_id, record_id) ==
    IF vlrs = <<>> THEN <<>>
    ELSE IF VlrMatches(Last(vlrs), user_id, record_id) THEN <<Last(vlrs)>>
    ELSE LastVlr(Front(vlrs), user_id, record_id)

\* the bytes of a record of n hierarchy entries that is not at the start of a
\* hierarchy page read as entries: not the entries of a page
GarbageEntry == [key |-> NoKey, offset |-> 0, byte_size |-> 0, point_count |-> 0]

\* where the data of the record at position p starts: the header of a VLR is
\* 54, that of an EVLR 60 bytes long
RecordDataAt(data, p) ==
    p + (IF data[p].kind = "evlr" THEN EvlrHeaderLen ELSE VlrHeaderLen)
\* the record at position p holds hierarchy entries
HoldsEntries(data, p) ==
    /\ data[p].kind \in {"vlr", "evlr"}
    /\ VlrMatches(data[p].payload, "copc", 1000)
\* position pos is where an entry of the record at p starts, with n entries
\* from there on
EntriesStartAt(data, p, pos, n) ==
    /\ HoldsEntries(data, p)
    /\ pos >= RecordDataAt(data, p)
    /\ (pos - RecordDataAt(data, p)) % EntryLen = 0
    /\ (pos - RecordDataAt(data, p)) \div EntryLen + n <= Len(data[p].payload.data)

\* the n entries from position pos on of the record at p
EntriesOf(data, p, pos, n) ==
    SubSeq(data[p].payload.data,
           (pos - RecordDataAt(data, p)) \div EntryLen + 1,
           (pos - RecordDataAt(data, p)) \div EntryLen + n)

\* HierarchyPage::read_from on the stream at position pos: page_size / 32
\* entries
EntriesAt(data, pos, page_size) ==
    IF \E p \in DOMAIN data : EntriesStartAt(data, p, pos, page_size \div EntryLen)
    THEN EntriesOf(data,
                   CHOOSE p \in DOMAIN data :
                       EntriesStartAt(data, p, pos, page_size \div EntryLen),
                   pos, page_size \div EntryLen)
    ELSE [i \in 1..(page_size \div EntryLen) |-> GarbageEntry]

\* HierarchyPage::read_from on the data of the hierarchy record: the first
\* page_size / 32 entries
HierarchyPageRead(entries, page_size) == SubSeq(entries, 1, page_size \div EntryLen)

\* where CopcReader::new seeks to for the page an entry refers to
PageSeekPos(entry, ci, read_start) == entry.offset - ci.root_hier_offset + read_start

\* the page loop of CopcReader::new: `page` is popped from its end; an entry
\* with point_count = -1 is replaced by the entries of the page it points to
RECURSIVE LoadHierarchy(_, _, _, _, _)
LoadHierarchy(page, map, data, ci, read_start) ==
    IF page = <<>> THEN map
    ELSE IF Last(page).point_count = -1
    THEN LoadHierarchy(Front(page) \o EntriesAt(data, PageSeekPos(Last(page), ci, read_start),
                                                 Last(page).byte_size),
                       map, data, ci, read_start)
    ELSE LoadHierarchy(Front(page), (Last(page).key :> Last(page)) @@ map, data, ci, read_start)

\* CopcReader::new returns the error e
ReaderFails(e) == [result |-> e, copc_info |-> <<>>, hierarchy_entries |-> <<>>]

\* CopcReader::new from the hierarchy pages on: ci is the COPC info, entries
\* the data of the hierarchy record
ReadHierarchy(s, ci, entries, laszip_vlr) ==
    IF Len(entries) * EntryLen < ci.root_hier_size THEN ReaderFails("IoError")
    ELSE IF laszip_vlr = <<>> THEN ReaderFails("LasZipVlrNotFound")
    ELSE [result |-> "Ok", copc_info |-> ci,
          hierarchy_entries |->
              LoadHierarchy(HierarchyPageRead(entries, ci.root_hier_size), <<>>,
                            s.data, ci, s.pos)]

\* CopcReader::new once the records of the three arms are known
CheckVlrs(s, copc_vlr, ept_hierarchy, laszip_vlr) ==
    IF copc_vlr = <<>> THEN ReaderFails("CopcInfoVlrNotFound")
    ELSE IF ept_hierarchy = <<>> THEN ReaderFails("EptHierarchyVlrNotFound")
    ELSE ReadHierarchy(s, copc_vlr[1].data, ept_hierarchy[1].data, laszip_vlr)

\* the loop over header.all_vlrs()
MatchVlrs(s, all_vlrs) ==
    CheckVlrs(s, LastVlr(all_vlrs, "copc", 1), LastVlr(all_vlrs, "copc", 1000),
              LastVlr(all_vlrs, "laszip encoded", 22204))

\* CopcReader::new after the VLRs (v) and the EVLRs (e) were read
ReadEvlrs(s, v, e) ==
    IF ~v.ok \/ ~e.ok THEN ReaderFails("LasError") ELSE MatchVlrs(s, v.vlrs \o e.vlrs)

\* CopcReader::new after the raw header h was read
ReadVlrs(s, h) ==
    ReadEvlrs(s,
              ReadRecords(s.data, s.pos + LasHeaderLen, h.number_of_variable_length_records,
                          "vlr", <<>>),
              IF h.evlr = <<>> THEN [ok |-> TRUE, vlrs |-> <<>>]
              ELSE ReadRecords(s.data, h.evlr[1] + s.pos, h.evlr[2], "evlr", <<>>))

\* CopcReader::new on the stream `s` positioned at its start
\* [result, copc_info, hierarchy_entries]
ReaderNewResult(s) ==
    IF ~AtOffset(s.data, s.pos, "header") THEN ReaderFails("LasError")
    ELSE ReadVlrs(s, s.data[s.pos].payload)

\* reader.rs bounds_intersect
bounds_intersect(a, b) ==
    ~(a.max.x < b.min.x \/ a.max.y < b.min.y \/ a.max.z < b.min.z
      \/ a.min.x > b.max.x \/ a.min.y > b.max.y \/ a.min.z > b.max.z)

\* LodSelection and BoundsSelection
LodAll == [kind |-> "All"]
LodLevel(l) == [kind |-> "Level", level |-> l]
LodLevelMinMax(a, b) == [kind |-> "LevelMinMax", min |-> a, max |-> b]
\* Resolution(num / den)
LodResolution(num, den) == [kind |-> "Resolution", resolution |-> Ratio(num, den)]
BoundsAll == [kind |-> "All"]
Within(b) == [kind |-> "Within", bounds |-> b]
Box(x0, y0, z0, x1, y1, z1) ==
    [min |-> [x |-> x0, y |-> y0, z |-> z0], max |-> [x |-> x1, y |-> y1, z |-> z1]]

\* the least k >= from with 2^k >= a / b, for b > 0
RECURSIVE LeastPower(_, _, _)
LeastPower(from, a, b) == IF (2 ^ from) * b >= a THEN from ELSE LeastPower(from + 1, a, b)

\* 1.max((resolution * spacing).log2().ceil() as i32): the cast saturates and
\* takes NaN to 0
ResolutionLevelMax(resolution, spacing) ==
    IF resolution.den * spacing.den = 0
    THEN (IF resolution.num * spacing.num = 0 THEN 1 ELSE I32_MAX)
    ELSE LeastPower(1, resolution.num * spacing.num, resolution.den * spacing.den)

\* (level_min, level_max) of load_octree_for_query
LevelRange_top(lod) ==
    CASE lod.kind = "All" -> <<0, I32_MAX>>
      [] lod.kind = "Resolution" ->
             <<0, ResolutionLevelMax(lod.resolution, r_copc_info.spacing)>>
      [] lod.kind = "Level" -> <<lod.level, lod.level + 1>>
      [] lod.kind = "LevelMinMax" -> <<lod.max - 1, lod.max>>
LevelRange(lod) ==
    CASE lod.kind = "All" -> <<0, I32_MAX>>
      [] lod.kind = "Resolution" ->
             <<0, ResolutionLevelMax(lod.resolution, r_copc_info.spacing)>>
      [] lod.kind = "Level" -> <<lod.level, lod.level + 1>>
      [] lod.kind = "LevelMinMax" -> <<lod.min, lod.max>>

\* whether load_octree_for_query emits the node of `entry`
EmitNode_empty(entry, level, level_min, level_max) ==
    entry.point_count >= 0 /\ level_min <= level /\ level < level_max
EmitNode(entry, level, level_min, level_max) ==
    entry.point_count > 0 /\ level_min <= level /\ level < level_max

\* the work loop of load_octree_for_query: node_stack is popped from its end
RECURSIVE QueryWalk(_, _, _, _, _, _)
QueryWalk(node_stack, satisfying_nodes, entries, root_bounds, range, query_bounds) ==
    IF node_stack = <<>> THEN satisfying_nodes
    ELSE LET key == Last(node_stack)
             rest == Front(node_stack)
         IN  IF key.level >= range[2]
             THEN QueryWalk(rest, satisfying_nodes, entries, root_bounds, range, query_bounds)
             ELSE IF key \notin DOMAIN entries
             THEN QueryWalk(rest, satisfying_nodes, entries, root_bounds, range, query_bounds)
             ELSE IF /\ query_bounds.kind = "Within"
                     /\ ~bounds_intersect(bounds(key, root_bounds), query_bounds.bounds)
             THEN QueryWalk(rest, satisfying_nodes, entries, root_bounds, range, query_bounds)
             ELSE QueryWalk(rest \o children(key),
                            IF EmitNode(entries[key], key.level, range[1], range[2])
                            THEN Append(satisfying_nodes, entries[key])
                            ELSE satisfying_nodes,
                            entries, root_bounds, range, query_bounds)

\* the order in which load_octree_for_query returns the nodes it found
ResultOrder(satisfying_nodes) == satisfying_nodes

\* load_octree_for_query
load_octree_for_query(level_range, query_bounds) ==
    ResultOrder(QueryWalk(<<RootKey>>, <<>>, hierarchy_entries,
                          CubeAround(r_copc_info.center, r_copc_info.halfsize),
                          LevelRange(level_range), query_bounds))

\* RawBounds::contains_point
contains_point_open(rb, p) ==
    ~(p.x <= rb.min.x \/ p.y <= rb.min.y \/ p.z <= rb.min.z
      \/ p.x > rb.max.x \/ p.y > rb.max.y \/ p.z > rb.max.z)
contains_point(rb, p) ==
    ~(p.x < rb.min.x \/ p.y < rb.min.y \/ p.z < rb.min.z
      \/ p.x > rb.max.x \/ p.y > rb.max.y \/ p.z > rb.max.z)

\* the raw bounds points() derives from the query bounds
RawBoundsOf(b) ==
    [min |-> [x |-> Inverse(b.min.x), y |-> Inverse(b.min.y), z |-> Inverse(b.min.z)],
     max |-> [x |-> Inverse(b.max.x), y |-> Inverse(b.max.y), z |-> Inverse(b.max.z)]]
\* Transform::inverse fails outside the i32 range
InverseFails(w) ==
    \/ w >= WorldInfinity \/ w <= -WorldInfinity
    \/ Inverse(w) > I32_MAX \/ Inverse(w) < -I32_MAX - 1
RawBoundsFail(b) ==
    \E w \in {b.min.x, b.min.y, b.min.z, b.max.x, b.max.y, b.max.z} : InverseFails(w)

\* source_seek(offset) of the decompressor: where
\* seek(SeekFrom::Start(offset)) leaves the source of a decompressor whose
\* data start is dec_start
SourceSeekPos(dec_start, offset) == offset

\* total_points_left of the iterator points returns
TotalPoints_short(nodes) == SumSeq([i \in 1..Len(nodes) |-> nodes[i].point_count]) - 1
TotalPoints(nodes) == SumSeq([i \in 1..Len(nodes) |-> nodes[i].point_count])

\* CopcReader::points
PointsResult(levels, selection) ==
    LET nodes == load_octree_for_query(levels, selection)
        total == TotalPoints(nodes)
        base  == [NoIter EXCEPT !.lod = levels, !.query = selection, !.selected = nodes]
    IN  IF selection.kind = "Within" /\ RawBoundsFail(selection.bounds)
        THEN [base EXCEPT !.state = "panic"]
        ELSE [base EXCEPT !.state = "active",
                          !.nodes = nodes,
                          !.total_points_left = total,
                          !.raw_bounds = IF selection.kind = "Within"
                                         THEN RawBoundsOf(selection.bounds) ELSE <<>>]

\* the loop of PointIter::next, entered with total_points_left > 0
RECURSIVE NextLoop(_, _)
NextLoop(it, data) ==
    IF it.node_points_left = 0
    THEN IF it.nodes = <<>> THEN [it EXCEPT !.state = "ended"]
         ELSE LET node == Last(it.nodes)
                  at == SourceSeekPos(r_start, node.offset)
              IN  NextLoop([it EXCEPT !.nodes = Front(@),
                                      !.seeks = Append(@, node.offset),
                                      !.chunk = IF AtOffset(data, at, "chunk")
                                                THEN data[at].payload ELSE <<>>,
                                      !.node_points_left = node.point_count], data)
    ELSE IF it.chunk = <<>>
    THEN [it EXCEPT !.state = "panic"]     \* decompress_one(..).unwrap() on no chunk data
    ELSE LET raw_point == Head(it.chunk)
             it2 == [it EXCEPT !.chunk = Tail(@),
                               !.node_points_left = @ - 1,
                               !.total_points_left = @ - 1]
         IN  IF it.raw_bounds = <<>> \/ contains_point(it.raw_bounds, raw_point)
             THEN [it2 EXCEPT !.yielded = Append(@, from_raw(raw_point))]
             ELSE NextLoop(it2, data)

\* PointIter::next
IterNextResult(it, data) ==
    IF it.total_points_left = 0 THEN [it EXCEPT !.state = "ended"]
    ELSE NextLoop(it, data)

\* the iterator after next has been called until it returns None or panics
RECURSIVE RunIter(_, _)
RunIter(it, data) ==
    IF it.state # "active" THEN it ELSE RunIter(IterNextResult(it, data), data)

\* the resolutions asked for, fine to coarse
Resolutions == {Ratio(1, 8), Ratio(4, 1)}
LodChoices == {LodAll, LodLevel(0), LodLevel(1), LodLevelMinMax(0, 1), LodLevelMinMax(0, 2),
               LodLevelMinMax(0, 3), LodLevelMinMax(1, 3)}
              \cup {LodResolution(r.num, r.den) : r \in Resolutions}
\* query boxes: around the minimum corner of the root cube, a box holding the
\* whole cube, a box apart from the cube, the box of all space
QueryBoxes == {Box(0, 0, -4, 2, 2, -2), Box(-100, -100, -100, 100, 100, 100),
               Box(20, 20, 20, 24, 24, 24),
               Box(-WorldInfinity, -WorldInfinity, -WorldInfinity,
                   WorldInfinity, WorldInfinity, WorldInfinity)}
BoundsChoices == {BoundsAll} \cup {Within(b) : b \in QueryBoxes}

\* the stream is free for a reader: the writer is gone, or there never was one
SourceFree == dropped \/ new_result = "none"

\* CopcReader::new on the stream, positioned at its start
ReaderNew ==
    /\ SourceFree /\ reader = "none"
    /\ LET r == ReaderNewResult(SinkSeek(sink, start))
       IN  /\ reader' = IF r.result = "Ok" THEN "open" ELSE r.result
           /\ r_start' = start
           /\ r_copc_info' = r.copc_info
           /\ hierarchy_entries' = r.hierarchy_entries
    /\ UNCHANGED <<wvars, cvars, iter, xvars>>

\* CopcReader::points(levels, bounds)
PointsOf(lods, selections) ==
    \E levels \in lods, selection \in selections :
        /\ reader = "open" /\ iter.state = "none"
        /\ iter' = PointsResult(levels, selection)
        /\ UNCHANGED <<wvars, cvars, reader, r_start, r_copc_info, hierarchy_entries, xvars>>

\* reading back what the writer wrote: points(LodSelection::All, BoundsSelection::All)
PointsAll == PointsOf({LodAll}, {BoundsAll})

\* any selection
Points == PointsOf(LodChoices, BoundsChoices)

\* PointIter::next
IterNext ==
    /\ iter.state = "active"
    /\ iter' = IterNextResult(iter, sink.data)
    /\ UNCHANGED <<wvars, cvars, reader, r_start, r_copc_info, hierarchy_entries, xvars>>

Next == WriteBegin \/ WritePoint \/ WriteEnd \/ Drop \/ ReaderNew \/ PointsAll \/ IterNext

Spec == Init /\ [][Next]_vars

(***************************************************************************)
(* Reading an arbitrary COPC file: the files of SpecQuery                  *)
(***************************************************************************)
MaxChunkPoints == 2     \* most points of one chunk of such a file
\* the spacing in the COPC info of such a file
FileSpacing == Ratio(8, 1)
\* the keys that can have a hierarchy entry in such a file
QueryKeys == <<RootKey, Key(1, 0, 0, 0), Key(1, 1, 1, 1), Key(2, 0, 0, 0)>>

\* the raw points of the chunk of node `key`: the minimum corner of its cube,
\* the maximum corner, then the centre
ChunkPoints(key, n) ==
    LET b == bounds(key, RootBounds)
        mid == [x |-> (b.min.x + b.max.x) \div 2, y |-> (b.min.y + b.max.y) \div 2,
                z |-> (b.min.z + b.max.z) \div 2]
        at(i) == IF i = 1 THEN b.min ELSE IF i = 2 THEN b.max ELSE mid
    IN  [i \in 1..n |-> into_raw([x |-> at(i).x, y |-> at(i).y, z |-> at(i).z,
                                  gps_time |-> i])]

\* the chunk of `key`, of n points, written after what `acc` holds, and its
\* hierarchy entry: [s, entries]
WriteChunk(acc, key, n, chunk) ==
    [s |-> IF n > 0 THEN SinkWrite(acc.s, Seg("chunk", LazChunkSize(chunk), chunk)) ELSE acc.s,
     entries |-> Append(acc.entries,
                        [key |-> key,
                         offset |-> IF n > 0 THEN acc.s.pos ELSE 0,
                         byte_size |-> IF n > 0 THEN LazChunkSize(chunk) ELSE 0,
                         point_count |-> n])]

\* the chunks of the keys of `order` written one after the other: [s, entries]
RECURSIVE WriteChunks(_, _, _)
WriteChunks(acc, order, counts) ==
    IF order = <<>> THEN acc
    ELSE WriteChunks(WriteChunk(acc, QueryKeys[order[1]], counts[order[1]],
                                ChunkPoints(QueryKeys[order[1]], counts[order[1]])),
                     Tail(order), counts)

\* the VLRs of a file and where its hierarchy is: the layout a COPC writer
\* produces; the COPC info not the first VLR; no COPC info; no hierarchy; no
\* LAZ VLR; none of the three; user ids in upper case; the hierarchy a VLR
StandardLayout == [vlrs |-> <<"copc", "laz", "wkt">>, hierarchy |-> "evlr"]
Layouts ==
    { StandardLayout,
      [vlrs |-> <<"wkt", "copc", "laz">>, hierarchy |-> "evlr"],
      [vlrs |-> <<"laz", "wkt">>, hierarchy |-> "evlr"],
      [vlrs |-> <<"copc", "laz", "wkt">>, hierarchy |-> "none"],
      [vlrs |-> <<"copc", "wkt">>, hierarchy |-> "evlr"],
      [vlrs |-> <<"wkt">>, hierarchy |-> "none"],
      [vlrs |-> <<"COPC", "LAZ", "wkt">>, hierarchy |-> "evlr"],
      [vlrs |-> <<"copc", "laz", "hierarchy", "wkt">>, hierarchy |-> "vlr"] }

\* the record of a layout's VLR
LayoutVlr(name, ci, pages) ==
    CASE name = "copc" -> CopcInfoVlr(ci)
      [] name = "COPC" -> Seg("vlr", CopcVlrLen, Vlr("COPC", 1, ci))
      [] name = "laz" -> LazVlr
      [] name = "LAZ" -> Seg("vlr", LazVlrLen, Vlr("LASzip Encoded", 22204, <<>>))
      [] name = "wkt" -> WktVlr
      [] name = "hierarchy" ->
             Seg("vlr", VlrHeaderLen + byte_size(pages), Vlr("copc", 1000, pages))

\* the VLRs of the layout written one after the other
RECURSIVE WriteVlrs(_, _, _, _)
WriteVlrs(s, names, ci, pages) ==
    IF names = <<>> THEN s
    ELSE WriteVlrs(SinkWrite(s, LayoutVlr(names[1], ci, pages)), Tail(names), ci, pages)

\* whether the entries are split into a root page and a second page
TwoPages(entries, paged) == paged /\ Len(entries) >= 2

\* the data of the hierarchy record, at offset rho from the start of the
\* file: the entries in one page, or a root page of the first entry and of an
\* entry referring to the page of the other entries, which follows
PageData(entries, rho, paged) ==
    IF TwoPages(entries, paged)
    THEN <<entries[1],
           [key |-> entries[2].key, offset |-> rho + 2 * EntryLen,
            byte_size |-> (Len(entries) - 1) * EntryLen, point_count |-> -1]>>
         \o Tail(entries)
    ELSE entries
RootPageSize(entries, paged) ==
    IF TwoPages(entries, paged) THEN 2 * EntryLen ELSE byte_size(entries)

\* the records that reserve the place of the hierarchy and of the COPC info
ReservedPages(n, paged) == [i \in 1..(IF paged /\ n >= 2 THEN n + 1 ELSE n) |-> GarbageEntry]

\* the header, the VLRs and the offset to the chunk table of a file at s0
FileStart(s0, layout, n) ==
    SinkWrite(WriteVlrs(SinkWrite([pos |-> s0, data |-> <<>>],
                                  Seg("header", LasHeaderLen, <<>>)),
                        layout.vlrs, DefaultCopcInfo, ReservedPages(n, FALSE)),
              Seg("chunk_table_offset", ChunkTableOffsetLen, 0))

\* the COPC info and the raw header of the file
FileInfo(entries, rho, paged) ==
    [DefaultCopcInfo EXCEPT
         !.center = CenterPoint, !.halfsize = Halfsize, !.spacing = FileSpacing,
         !.root_hier_offset = rho,
         !.root_hier_size = RootPageSize(entries, paged)]
FileRawHeader(entries, layout, rho) ==
    Seg("header", LasHeaderLen,
        [number_of_points |-> SumSeq([i \in 1..Len(entries) |-> entries[i].point_count]),
         number_of_variable_length_records |-> Len(layout.vlrs),
         evlr |-> IF layout.hierarchy = "evlr" THEN <<rho - EvlrHeaderLen, 1>> ELSE <<>>])

\* the file once the data of its hierarchy record is at offset rho: the
\* hierarchy, the header and the VLRs are written with their contents
FileFinal(e, entries, s0, layout, paged, rho) ==
    SinkSeek(
        WriteVlrs(
            SinkWrite(
                SinkSeek(IF layout.hierarchy = "evlr"
                         THEN SinkWrite(SinkSeek(e, s0 + rho - EvlrHeaderLen),
                                        HierarchyEvlr(PageData(entries, rho, paged)))
                         ELSE e,
                         s0),
                FileRawHeader(entries, layout, rho)),
            layout.vlrs, FileInfo(entries, rho, paged), PageData(entries, rho, paged)),
        s0)

\* the offset of the data of the hierarchy record from the start of the file
HierarchyDataPos(data, s0) ==
    IF \E p \in DOMAIN data : HoldsEntries(data, p)
    THEN RecordDataAt(data, CHOOSE p \in DOMAIN data : HoldsEntries(data, p)) - s0
    ELSE 0

\* the file from the stream e in which every record has its place
FilePatched(e, entries, s0, layout, paged) ==
    FileFinal(e, entries, s0, layout, paged, HierarchyDataPos(e.data, s0))

\* the chunk table and the hierarchy EVLR written after the chunks
FileTail(d, n, layout, paged) ==
    IF layout.hierarchy = "evlr" THEN SinkWrite(d, HierarchyEvlr(ReservedPages(n, paged)))
    ELSE d
FileOf(c, s0, layout, paged) ==
    FilePatched(FileTail(SinkWrite(c.s, Seg("chunk_table", ChunkTableSize(c.entries), <<>>)),
                         Len(c.entries), layout, paged),
                c.entries, s0, layout, paged)

\* a COPC file at stream position s0 whose hierarchy holds the entries of the
\* keys `order` (chunks in that order in the file) with `counts` points, in
\* one page or in two, with the VLRs of `layout`
ArbitraryFile(s0, order, counts, paged, layout) ==
    FileOf(WriteChunks([s |-> FileStart(s0, layout, Len(order)), entries |-> <<>>],
                       order, counts),
           s0, layout, paged)

\* the orders in which the keys of a set can be listed: ascending and descending
KeyOrders(present) ==
    LET n == Cardinality(present)
        asc == CHOOSE f \in [1..n -> present] : \A i, j \in 1..n : i < j => f[i] < f[j]
    IN  {asc, [i \in 1..n |-> asc[n + 1 - i]]}

\* the files of the model: every hierarchy in one page with the standard
\* layout; the hierarchy of all keys, one point each, in two pages; that
\* hierarchy in one page with every other layout
FileChoice(present, order, counts, paged, layout) ==
    \/ ~paged /\ layout = StandardLayout
    \/ /\ present = 1..Len(QueryKeys)
       /\ order = [i \in 1..Len(QueryKeys) |-> i]
       /\ counts = [i \in 1..Len(QueryKeys) |-> 1]
       /\ (paged /\ layout = StandardLayout) \/ (~paged /\ layout # StandardLayout)

InitQ ==
    \E present \in SUBSET (1..Len(QueryKeys)), s0 \in Starts :
      \E order \in KeyOrders(present), counts \in [1..Len(QueryKeys) -> 0..MaxChunkPoints],
         paged \in BOOLEAN, layout \in Layouts :
        /\ \A i \in 1..Len(QueryKeys) : i \notin present => counts[i] = 0
        /\ FileChoice(present, order, counts, paged, layout)
        /\ new_result = "none"
        /\ is_closed = FALSE
        /\ start = s0
        /\ min_node_size = 0
        /\ max_node_size = 0
        /\ header = NoHeader
        /\ copc_info = DefaultCopcInfo
        /\ octree = <<>>
        /\ open_chunks = <<>>
        /\ hierarchy = <<>>
        /\ sink = ArbitraryFile(s0, order, counts, paged, layout)
        /\ compressor = CompressorNew(sink)
        /\ pc = "idle"
        /\ num_points = 0
        /\ idx = 0
        /\ invalid_points = "Ok"
        /\ result = "none"
        /\ dropped = FALSE
        /\ fed = NothingFed
        /\ ReaderInit
        /\ NoCalls

NextQ == ReaderNew \/ Points \/ IterNext

SpecQuery == InitQ /\ [][NextQ]_vars

(***************************************************************************)
(* CopcWriter::from_path (SpecPath)                                        *)
(*                                                                         *)
(* A path is a sequence of pieces of a string: the pieces "." and "/" and  *)
(* pieces without either.  An Option is <<>> (None) or <<v>> (Some(v)).    *)
(***************************************************************************)
PathPieces == {".", "/", "a", "copc", "COPC", "laz", "Laz"}
Paths == UNION {[1..n -> PathPieces] : n \in 0..MaxPathLen}

\* the pieces between the separators
RECURSIVE SplitPath(_, _, _)
SplitPath(p, cur, acc) ==
    IF p = <<>> THEN Append(acc, cur)
    ELSE IF p[1] = "/" THEN SplitPath(Tail(p), <<>>, Append(acc, cur))
    ELSE SplitPath(Tail(p), Append(cur, p[1]), acc)

\* Path::components without the root and "." components
NormalComponents(p) ==
    SelectSeq(SplitPath(p, <<>>, <<>>), LAMBDA c : c # <<>> /\ c # <<".">>)

\* the last component, unless there is none or it is ".."
LastNormal(comps) ==
    IF comps = <<>> THEN <<>>
    ELSE IF Last(comps) = <<".", ".">> THEN <<>>
    ELSE <<Last(comps)>>

\* Path::file_name
file_name(p) == LastNormal(NormalComponents(p))

\* rsplit_file_at_dot once the place of the last "." (0: none) is known
SplitAtDot(file, dot) ==
    IF dot = 0 THEN [before |-> <<>>, after |-> <<file>>]
    ELSE IF dot = 1 THEN [before |-> <<file>>, after |-> <<>>]
    ELSE [before |-> <<SubSeq(file, 1, dot - 1)>>,
          after |-> <<SubSeq(file, dot + 1, Len(file))>>]

\* rsplit_file_at_dot: (before, after) the last "."
rsplit_file_at_dot(file) ==
    IF file = <<".", ".">> THEN [before |-> <<file>>, after |-> <<>>]
    ELSE SplitAtDot(file, MaxOf({0} \cup {i \in 1..Len(file) : file[i] = "."}))

\* before.or(after) and before.and(after)
OptionOr(r) == IF r.before # <<>> THEN r.before ELSE r.after
OptionAnd(r) == IF r.before # <<>> THEN r.after ELSE <<>>

\* Path::file_stem and Path::extension
file_stem(p) == IF file_name(p) = <<>> THEN <<>> ELSE OptionOr(rsplit_file_at_dot(file_name(p)[1]))
extension(p) == IF file_name(p) = <<>> THEN <<>> ELSE OptionAnd(rsplit_file_at_dot(file_name(p)[1]))

\* str::to_lowercase on a string in pieces
LowerStr(str) == [i \in 1..Len(str) |-> to_lowercase(str[i])]

\* the test on the two extensions, with `&&` for `||`
ExtensionsDiffer_both(copc_str, laz_str) ==
    LowerStr(copc_str) # <<"copc">> /\ LowerStr(laz_str) # <<"laz">>
\* the test of from_path on the two extensions
ExtensionsDiffer(copc_str, laz_str) ==
    LowerStr(copc_str) # <<"copc">> \/ LowerStr(laz_str) # <<"laz">>

\* the match of from_path on (copc_ext, path.extension())
ExtensionsWrong(copc_ext, laz_ext) ==
    IF copc_ext = <<>> \/ laz_ext = <<>> THEN TRUE
    ELSE ExtensionsDiffer(copc_ext[1], laz_ext[1])

\* from_path returns WrongCopcExtension
WrongCopcExtension(p) ==
    IF file_stem(p) = <<>> THEN TRUE
    ELSE ExtensionsWrong(extension(file_stem(p)[1]), extension(p))

\* the state before a writer exists
NoWriter ==
    /\ new_result = "none"
    /\ is_closed = FALSE
    /\ start = 0
    /\ min_node_size = 0
    /\ max_node_size = 0
    /\ header = NoHeader
    /\ copc_info = DefaultCopcInfo
    /\ octree = <<>>
    /\ open_chunks = <<>>
    /\ hierarchy = <<>>
    /\ sink = [pos |-> 0, data |-> <<>>]
    /\ compressor = CompressorNew(sink)
    /\ pc = "idle"
    /\ num_points = 0
    /\ idx = 0
    /\ invalid_points = "Ok"
    /\ result = "none"
    /\ dropped = FALSE
    /\ fed = NothingFed
    /\ ReaderInit

InitP ==
    /\ NoWriter
    /\ path \in Paths
    /\ created = FALSE
    /\ NoPage
    /\ NoInfo
    /\ NoKeys
    /\ NoSeek

\* from_path returns what CopcWriter::new returned (nw)
BecomesWriter(nw) ==
    /\ new_result' = nw.new_result
    /\ min_node_size' = nw.min_node_size
    /\ max_node_size' = nw.max_node_size
    /\ header' = nw.header
    /\ copc_info' = nw.copc_info
    /\ octree' = nw.octree
    /\ sink' = nw.sink
    /\ compressor' = nw.compressor
    /\ fed' = nw.fed
    /\ UNCHANGED <<is_closed, start, open_chunks, hierarchy>>

\* the node sizes given to from_path
FromPathArgs == {<<1, 2>>, <<2, 2>>}

\* CopcWriter::from_path(path, header, min_size, max_size); File::create
\* succeeds or fails
FromPath ==
    /\ new_result = "none"
    /\ IF WrongCopcExtension(path)
       THEN /\ new_result' = "WrongCopcExtension"
            /\ UNCHANGED <<is_closed, start, min_node_size, max_node_size, header,
                           copc_info, octree, open_chunks, hierarchy, compressor, sink,
                           fed, created>>
       ELSE \E ok \in BOOLEAN, args \in FromPathArgs :
                /\ created' = ok
                /\ IF ok THEN BecomesWriter(NewWriter(args, 0, StandardInput))
                   ELSE /\ new_result' = "Io"
                        /\ UNCHANGED <<is_closed, start, min_node_size, max_node_size,
                                       header, copc_info, octree, open_chunks, hierarchy,
                                       compressor, sink, fed>>
    /\ UNCHANGED <<pc, num_points, idx, invalid_points, result, dropped, rvars,
                   path, evars, ivars, kvars, svars>>

NextP == FromPath

SpecPath == InitP /\ [][NextP]_vars

(***************************************************************************)
(* The writer on arbitrary headers (SpecHeader)                            *)
(*                                                                         *)
(* CopcWriter::new is given each of InputHeaders; the writer is then given *)
(* copies of one point and is closed or dropped.                           *)
(***************************************************************************)
HeaderPoints == {Pt(0, 0, -4, 2, TRUE)}

InitH == InitOf({<<1, 2>>}, InputHeaders)

WriteBeginH == WriteBeginOf({0})
WritePointH == WritePointOf(HeaderPoints)

NextH == WriteBeginH \/ WritePointH \/ WriteEnd \/ Drop

SpecHeader == InitH /\ [][NextH]_vars

(***************************************************************************)
(* The serialization of hierarchy pages (SpecEntry)                        *)
(*                                                                         *)
(* A HierarchyPage of arbitrary entries is turned into the data of its     *)
(* EVLR by into_evlr, and the data is read by HierarchyPage::read_from     *)
(* with the page's byte_size.  Bytes are 0..255.  An i32 is an integer; a  *)
(* u64 is the tuple of its four 16-bit words, least significant first, so  *)
(* that the whole range of offsets is held.                                *)
(***************************************************************************)
\* the most entries of a page
MaxPageLen == 2

I32_MIN == -I32_MAX - 1
U64(w0, w1, w2, w3) == <<w0, w1, w2, w3>>
Entry(key, offset, size, count) ==
    [key |-> key, offset |-> offset, byte_size |-> size, point_count |-> count]

\* entries of a page: the empty root, a chunk, a reference to another page
\* with the greatest offset and size, the default key with the least i32,
\* fields that fill two and three bytes, negative fields
EntryChoices ==
    { Entry(Key(0, 0, 0, 0), U64(0, 0, 0, 0), 0, 0),
      Entry(Key(1, 1, 0, 1), U64(1306, 0, 0, 0), 7, 1),
      Entry(Key(3, 5, 2, 7), U64(65535, 65535, 65535, 65535), I32_MAX, -1),
      Entry(NoKey, U64(0, 1, 0, 0), I32_MIN, 2),
      Entry(Key(2, 258, 65539, 50331653), U64(513, 0, 0, 0), 256, 258),
      Entry(Key(7, -2, -256, -65537), U64(0, 0, 1, 32768), -1, 1024) }
Pages == UNION {[1..n -> EntryChoices] : n \in 0..MaxPageLen}

\* byteorder WriteBytesExt::write_i32::<LittleEndian>: the four bytes of the
\* two's complement of v, least significant first
write_i32(v) == [j \in 1..4 |-> (v \div (256 ^ (j - 1))) % 256]
\* byteorder ReadBytesExt::read_i32::<LittleEndian>
read_i32(b) ==
    b[1] + 256 * b[2] + 65536 * b[3] + 16777216 * (IF b[4] >= 128 THEN b[4] - 256 ELSE b[4])
\* write_u64::<LittleEndian> and read_u64::<LittleEndian>
write_u64(w) ==
    [j \in 1..8 |-> IF j % 2 = 1 THEN w[(j + 1) \div 2] % 256 ELSE w[j \div 2] \div 256]
read_u64(b) == [k \in 1..4 |-> b[2 * k - 1] + 256 * b[2 * k]]

\* VoxelKey::write_to
VoxelKey_write_to(key) ==
    write_i32(key.level) \o write_i32(key.x) \o write_i32(key.y) \o write_i32(key.z)
\* VoxelKey::read_from
VoxelKey_read_from(b) ==
    Key(read_i32(SubSeq(b, 1, 4)), read_i32(SubSeq(b, 5, 8)),
        read_i32(SubSeq(b, 9, 12)), read_i32(SubSeq(b, 13, 16)))

\* Entry::write_to
Entry_write_to(e) ==
    VoxelKey_write_to(e.key) \o write_u64(e.offset)
        \o write_i32(e.byte_size) \o write_i32(e.point_count)
\* Entry::read_from, off the first bytes of b
Entry_read_from_swapped(b) ==
    Entry(VoxelKey_read_from(SubSeq(b, 1, 16)), read_u64(SubSeq(b, 17, 24)),
          read_i32(SubSeq(b, 29, 32)), read_i32(SubSeq(b, 25, 28)))
Entry_read_from(b) ==
    Entry(VoxelKey_read_from(SubSeq(b, 1, 16)), read_u64(SubSeq(b, 17, 24)),
          read_i32(SubSeq(b, 25, 28)), read_i32(SubSeq(b, 29, 32)))

\* the loop of into_evlr: the entries written one behind the other
RECURSIVE WriteEntries(_)
WriteEntries(entries) ==
    IF entries = <<>> THEN <<>> ELSE Entry_write_to(entries[1]) \o WriteEntries(Tail(entries))

\* HierarchyPage::into_evlr: a buffer of 32 zero bytes per entry, written over
\* from its start
into_evlr(entries) ==
    Vlr("copc", 1000,
        [j \in 1..(Len(entries) * 32) |->
            IF j <= Len(WriteEntries(entries)) THEN WriteEntries(entries)[j] ELSE 0])

\* HierarchyPage::read_from: page_size / 32 entries off the data; a read
\* beyond the data fails
HierarchyPage_read_from(data, page_size) ==
    IF Len(data) < (page_size \div 32) * 32 THEN [ok |-> FALSE, entries |-> <<>>]
    ELSE [ok |-> TRUE,
          entries |-> [i \in 1..(page_size \div 32) |->
                          Entry_read_from(SubSeq(data, 32 * (i - 1) + 1, 32 * i))]]

InitE ==
    /\ NoWriter
    /\ NoPath
    /\ hpage \in Pages
    /\ buffer = <<>>
    /\ read_back = <<>>
    /\ NoInfo
    /\ NoKeys
    /\ NoSeek

\* page.into_evlr()
IntoEvlr ==
    /\ buffer = <<>>
    /\ buffer' = <<into_evlr(hpage)>>
    /\ UNCHANGED <<wvars, cvars, rvars, pvars, ivars, kvars, svars, hpage, read_back>>

\* HierarchyPage::read_from(data of the EVLR, page.byte_size())
ReadFrom ==
    /\ buffer # <<>> /\ read_back = <<>>
    /\ read_back' = <<HierarchyPage_read_from(buffer[1].data, byte_size(hpage))>>
    /\ UNCHANGED <<wvars, cvars, rvars, pvars, ivars, kvars, svars, hpage, buffer>>

NextE == IntoEvlr \/ ReadFrom

SpecEntry == InitE /\ [][NextE]_vars

(***************************************************************************)
(* The serialization of the COPC info (SpecInfo)                           *)
(*                                                                         *)
(* A CopcInfo of arbitrary fields is turned into its VLR by into_vlr, and  *)
(* the data of the VLR is read by CopcInfo::read_from.  An f64 is its      *)
(* sign, its biased exponent and its fraction, the fraction as three       *)
(* 16-bit words and the four highest bits, least significant first.        *)
(***************************************************************************)
F64(sign, exponent, fraction) == [sign |-> sign, exponent |-> exponent, fraction |-> fraction]

\* f64::to_bits and f64::from_bits, the u64 as its four 16-bit words
to_bits(f) ==
    U64(f.fraction[1], f.fraction[2], f.fraction[3],
        f.sign * 32768 + f.exponent * 16 + f.fraction[4])
from_bits(w) ==
    F64(w[4] \div 32768, (w[4] \div 16) % 2048, <<w[1], w[2], w[3], w[4] % 16>>)

\* write_f64::<LittleEndian> and read_f64::<LittleEndian>
write_f64(f) == write_u64(to_bits(f))
read_f64(b) == from_bits(read_u64(b))

\* 0.0, -0.0, 1.0, -2.5, the least subnormal, f64::MAX, -f64::MAX,
\* +infinity and a NaN
Zero == F64(0, 0, <<0, 0, 0, 0>>)
Floats ==
    [zero |-> Zero,
     negzero |-> F64(1, 0, <<0, 0, 0, 0>>),
     one |-> F64(0, 1023, <<0, 0, 0, 0>>),
     neg |-> F64(1, 1024, <<0, 0, 0, 4>>),
     tiny |-> F64(0, 0, <<1, 0, 0, 0>>),
     max |-> F64(0, 2046, <<65535, 65535, 65535, 15>>),
     negmax |-> F64(1, 2046, <<65535, 65535, 65535, 15>>),
     inf |-> F64(0, 2047, <<0, 0, 0, 0>>),
     nan |-> F64(0, 2047, <<0, 0, 0, 8>>)]

CopcInfoOf(center, halfsize, spacing, offset, size, gps_min, gps_max) ==
    [center |-> center, halfsize |-> halfsize, spacing |-> spacing,
     root_hier_offset |-> offset, root_hier_size |-> size,
     gpstime_minimum |-> gps_min, gpstime_maximum |-> gps_max]

\* the CopcInfo values given to into_vlr: the default, what a new writer
\* holds (f64::MAX and f64::MIN as GPS times), what a closed writer holds,
\* infinite spacing, NaN, the greatest offset and size
InfoChoices ==
    {CopcInfoOf(c, h, sp, o, z, g[1], g[2]) :
        c \in {[x |-> Zero, y |-> Zero, z |-> Zero],
               [x |-> Floats.one, y |-> Floats.neg, z |-> Floats.tiny]},
        h \in {Zero, Floats.one},
        sp \in {Zero, Floats.inf, Floats.nan},
        o \in {U64(0, 0, 0, 0), U64(736, 0, 0, 0), U64(65535, 65535, 65535, 65535)},
        z \in {U64(0, 0, 0, 0), U64(32, 1, 0, 32768)},
        g \in {<<Zero, Floats.negzero>>, <<Floats.max, Floats.negmax>>,
               <<Floats.neg, Floats.one>>}}

\* the nine fields in the order into_vlr writes them
InfoBytes(ci) ==
    write_f64(ci.center.x) \o write_f64(ci.center.y) \o write_f64(ci.center.z)
        \o write_f64(ci.halfsize) \o write_f64(ci.spacing)
        \o write_u64(ci.root_hier_offset) \o write_u64(ci.root_hier_size)
        \o write_f64(ci.gpstime_minimum) \o write_f64(ci.gpstime_maximum)

\* CopcInfo::into_vlr: a buffer of 160 zero bytes, written over from its start
into_vlr(ci) ==
    Vlr("copc", 1, [j \in 1..CopcInfoLen |->
                       IF j <= Len(InfoBytes(ci)) THEN InfoBytes(ci)[j] ELSE 0])

\* the field of 8 bytes that starts behind `off` bytes of b
Field(b, off) == SubSeq(b, off + 1, off + 8)

\* CopcInfo::read_from: the nine fields off the data; a read beyond the data
\* fails
CopcInfo_read_from_swapped(b) ==
    IF Len(b) < 72 THEN [ok |-> FALSE, info |-> <<>>]
    ELSE [ok |-> TRUE,
          info |-> CopcInfoOf([x |-> read_f64(Field(b, 0)), y |-> read_f64(Field(b, 8)),
                               z |-> read_f64(Field(b, 16))],
                              read_f64(Field(b, 24)), read_f64(Field(b, 32)),
                              read_u64(Field(b, 48)), read_u64(Field(b, 40)),
                              read_f64(Field(b, 56)), read_f64(Field(b, 64)))]
CopcInfo_read_from(b) ==
    IF Len(b) < 72 THEN [ok |-> FALSE, info |-> <<>>]
    ELSE [ok |-> TRUE,
          info |-> CopcInfoOf([x |-> read_f64(Field(b, 0)), y |-> read_f64(Field(b, 8)),
                               z |-> read_f64(Field(b, 16))],
                              read_f64(Field(b, 24)), read_f64(Field(b, 32)),
                              read_u64(Field(b, 40)), read_u64(Field(b, 48)),
                              read_f64(Field(b, 56)), read_f64(Field(b, 64)))]

InitI ==
    /\ NoWriter
    /\ NoPath
    /\ NoPage
    /\ info \in InfoChoices
    /\ info_vlr = <<>>
    /\ info_back = <<>>
    /\ NoKeys
    /\ NoSeek

\* info.into_vlr()
IntoVlr ==
    /\ info_vlr = <<>>
    /\ info_vlr' = <<into_vlr(info)>>
    /\ UNCHANGED <<wvars, cvars, rvars, pvars, evars, kvars, svars, info, info_back>>

\* CopcInfo::read_from(data of the VLR)
InfoReadFrom ==
    /\ info_vlr # <<>> /\ info_back = <<>>
    /\ info_back' = <<CopcInfo_read_from(info_vlr[1].data)>>
    /\ UNCHANGED <<wvars, cvars, rvars, pvars, evars, kvars, svars, info, info_vlr>>

NextI == IntoVlr \/ InfoReadFrom

SpecInfo == InitI /\ [][NextI]_vars

(***************************************************************************)
(* The children and the bounds of a voxel key (SpecKey)                    *)
(*                                                                         *)
(* children() is called on a key, then bounds(root_bounds) on the key and  *)
(* on each of the children.  The keys are those of the first levels of the *)
(* octree and keys whose coordinates are at the ends of the i32 range; the *)
(* cubes are computed for the keys of the octree.                          *)
(***************************************************************************)
\* the deepest level of the keys of the octree given
MaxKeyLevel == 2

\* the keys of level l inside the root
LevelKeys(l) ==
    {Key(l, x, y, z) : x \in 0..(2 ^ l - 1), y \in 0..(2 ^ l - 1), z \in 0..(2 ^ l - 1)}
OctreeKeys == UNION {LevelKeys(l) : l \in 0..MaxKeyLevel}
\* keys at the ends of the range of an i32 coordinate
WideKeys ==
    { Key(30, 1073741823, 0, 536870912), Key(31, 1073741824, 0, 0),
      Key(31, 0, I32_MAX, 5), Key(31, 7, 1, 1610612736),
      Key(3, -1, -1073741824, 0), Key(3, 0, -1073741825, 0),
      Key(3, -I32_MAX - 1, 2, -3) }

InitK ==
    /\ NoWriter
    /\ NoPath
    /\ NoPage
    /\ NoInfo
    /\ NoSeek
    /\ vkey \in OctreeKeys \cup WideKeys
    /\ vchildren = <<>>
    /\ vbounds = <<>>

\* vkey.children()
Children ==
    /\ vchildren = <<>>
    /\ vchildren' = <<children(vkey)>>
    /\ UNCHANGED <<wvars, cvars, rvars, pvars, evars, ivars, svars, vkey, vbounds>>

\* vkey.bounds(root_bounds) and child.bounds(root_bounds) of every child
Bounds ==
    /\ vchildren # <<>> /\ vbounds = <<>>
    /\ vkey \in OctreeKeys
    /\ vbounds' = <<[parent |-> bounds(vkey, RootBounds),
                     kids |-> [i \in 1..Len(vchildren[1]) |->
                                  bounds(vchildren[1][i], RootBounds)]]>>
    /\ UNCHANGED <<wvars, cvars, rvars, pvars, evars, ivars, svars, vkey, vchildren>>

NextK == Children \/ Bounds

SpecKey == InitK /\ [][NextK]_vars

(***************************************************************************)
(* The decompressor (SpecSeek)                                             *)
(*                                                                         *)
(* A compressor writes a block of two chunks at a position of a stream; a  *)
(* decompressor is made over the stream with a data start, and then        *)
(* source_seek and decompress_one are called on it.                        *)
(***************************************************************************)
\* the most calls made on one decompressor
MaxCalls == 4

\* the records of the two chunks of the block
SeekChunks == << <<"a1", "a2">>, <<"b1", "b2", "b3">> >>
\* the positions of the stream at which the block is written
BlockStarts == {0, LasHeaderLen + LazVlrLen}

\* the stream after CopcCompressor::new, compress_chunk of each chunk, done
BlockOf(block_start) ==
    LET s0 == [pos |-> block_start, data |-> <<>>]
        a  == compress_chunk([c |-> CompressorNew(s0), s |-> s0], SeekChunks[1])
        b  == compress_chunk([c |-> a.c, s |-> a.s], SeekChunks[2])
    IN  compressor_done([c |-> b.c, s |-> b.s]).s

\* where the chunks of the block start, counted from the start of the block
ChunkStarts == {ChunkTableOffsetLen, ChunkTableOffsetLen + LazChunkSize(SeekChunks[1])}
\* the offsets given to source_seek: those of the chunks counted from the
\* start of the block, and those positions of the stream
SeekOffsets(block_start) == ChunkStarts \cup {block_start + o : o \in ChunkStarts}

\* LasZipDecompressor::new(source, Some(data_start), vlr); `fresh` is the
\* state of the record decompressor after new and after reset, `loaded` the
\* records of the chunk it is reading that it did not return yet, `calls` the
\* calls made, each with the position it left the source at
DecompressorNew(data_start) ==
    [data_start |-> data_start, current_chunk |-> 0, chunk_points_read |-> 0,
     num_points_in_chunk |-> 1, fresh |-> TRUE, loaded |-> <<>>,
     record_count |-> 0, calls |-> <<>>]

\* reset_for_new_chunk
reset_for_new_chunk(d) ==
    [d EXCEPT !.chunk_points_read = 0, !.fresh = TRUE, !.loaded = <<>>]

\* source_seek(offset): [d, s] of decompressor and source
source_seek(d, s, offset) ==
    [d |-> reset_for_new_chunk(d),
     s |-> SinkSeek(s, SourceSeekPos(d.data_start, offset))]

\* record_decompressor.decompress_next(out): a record decompressor that was
\* reset reads the chunk at the position of the source, one that was not
\* returns the next record of the chunk it read; [ok, d, s, out]
decompress_next(d, s) ==
    IF d.fresh
    THEN IF AtOffset(s.data, s.pos, "chunk")
         THEN [ok |-> TRUE,
               d |-> [d EXCEPT !.fresh = FALSE, !.loaded = Tail(s.data[s.pos].payload),
                               !.record_count = Len(s.data[s.pos].payload)],
               s |-> SinkSeek(s, s.pos + s.data[s.pos].len),
               out |-> Head(s.data[s.pos].payload)]
         ELSE [ok |-> FALSE, d |-> d, s |-> s, out |-> "Err"]
    ELSE IF d.loaded # <<>>
         THEN [ok |-> TRUE, d |-> [d EXCEPT !.loaded = Tail(@)], s |-> s,
               out |-> Head(d.loaded)]
         ELSE [ok |-> FALSE, d |-> d, s |-> s, out |-> "Err"]

\* decompress_one after its first test: `r` is what decompress_next returned
DecompressCounted(r) ==
    IF ~r.ok THEN r
    ELSE [r EXCEPT !.d.chunk_points_read = @ + 1,
                   !.d.num_points_in_chunk =
                       IF r.d.chunk_points_read + 1 = 1 THEN r.d.record_count ELSE @]

\* decompress_one(out): [ok, d, s, out]
decompress_one(d, s) ==
    DecompressCounted(decompress_next(
        IF d.chunk_points_read = d.num_points_in_chunk
        THEN [reset_for_new_chunk(d) EXCEPT !.current_chunk = @ + 1] ELSE d, s))

InitS ==
    /\ NoWriter
    /\ NoPath
    /\ NoPage
    /\ NoInfo
    /\ NoKeys
    /\ \E block_start \in BlockStarts :
           /\ dsource = <<SinkSeek(BlockOf(block_start), block_start)>>
           /\ \E data_start \in {0, block_start, block_start + ChunkTableOffsetLen} :
                  dec = <<DecompressorNew(data_start)>>

\* the start of the block the source holds
BlockStart == CHOOSE b \in BlockStarts : AtOffset(dsource[1].data, b, "chunk_table_offset")

SourceSeek ==
    /\ Len(dec[1].calls) < MaxCalls
    /\ \E offset \in SeekOffsets(BlockStart) :
           LET r == source_seek(dec[1], dsource[1], offset)
           IN  /\ dec' = <<[r.d EXCEPT !.calls = Append(@, [op |-> "source_seek",
                                                            arg |-> offset,
                                                            pos |-> r.s.pos,
                                                            out |-> "Ok"])]>>
               /\ dsource' = <<r.s>>
    /\ UNCHANGED <<wvars, cvars, rvars, pvars, evars, ivars, kvars>>

DecompressOne ==
    /\ Len(dec[1].calls) < MaxCalls
    /\ LET r == decompress_one(dec[1], dsource[1])
       IN  /\ dec' = <<[r.d EXCEPT !.calls = Append(@, [op |-> "decompress_one",
                                                        arg |-> 0, pos |-> r.s.pos,
                                                        out |-> r.out])]>>
           /\ dsource' = <<r.s>>
    /\ UNCHANGED <<wvars, cvars, rvars, pvars, evars, ivars, kvars>>

NextS == SourceSeek \/ DecompressOne

SpecSeek == InitS /\ [][NextS]_vars

(***************************************************************************)
(* Properties of the writer and of the write / read pipeline (Spec)        *)
(***************************************************************************)
SeqToSet(s) == {s[i] : i \in 1..Len(s)}
Occurrences(s, e) == Cardinality({i \in 1..Len(s) : s[i] = e})

\* the last write call has returned after a successful close
WriteOutcomes == {"Ok", "PointAttributesDoNotMatch", "PointNotInBounds"}
WriteReturnedClosed == pc = "idle" /\ result \in WriteOutcomes
\* the last write call has returned, having reached its end
WriteReturned ==
    pc = "idle" /\ result \in WriteOutcomes \cup {"EmptyCopcFile", "PointNotAddedToAnyNode"}

\* the points flushed into hierarchy entries, the points held in open chunks
FlushedPoints == SumSeq([i \in 1..Len(hierarchy) |-> hierarchy[i].point_count])
OpenPoints ==
    LET RECURSIVE Sum(_)
        Sum(K) == IF K = {} THEN 0
                  ELSE LET k == CHOOSE k \in K : TRUE IN Len(open_chunks[k]) + Sum(K \ {k})
    IN  Sum(DOMAIN open_chunks)

\* the raw points of the chunks the sink holds, and how often the raw form of
\* the world point q is stored in the sink or in an open chunk
StoredCount(q) ==
    LET RECURSIVE InSink(_)
        InSink(O) == IF O = {} THEN 0
                     ELSE LET o == CHOOSE o \in O : TRUE
                          IN  (IF sink.data[o].kind = "chunk"
                               THEN Occurrences(sink.data[o].payload, into_raw(q)) ELSE 0)
                              + InSink(O \ {o})
        RECURSIVE InOpen(_)
        InOpen(K) == IF K = {} THEN 0
                     ELSE LET k == CHOOSE k \in K : TRUE
                          IN  Occurrences(open_chunks[k], into_raw(q)) + InOpen(K \ {k})
    IN  InSink(DOMAIN sink.data) + InOpen(DOMAIN open_chunks)

\* the writer is gone and a reader has finished points(All, All) over its stream
ReadBackDone ==
    /\ new_result = "Ok" /\ is_closed /\ dropped
    /\ \/ reader \notin {"none", "open"}
       \/ iter.state \in {"ended", "panic"}

\* C1: round trip.  Once the written stream has been read back with
\* points(All, All), the reader opened it, the iteration ended without a
\* failure, every hierarchy entry of the writer was selected, and the points
\* yielded are the accepted points, each exactly once, header.number_of_points
\* of them.
C1_RoundTrip ==
    ReadBackDone =>
        /\ reader = "open"
        /\ iter.state = "ended"
        /\ SeqToSet(hierarchy) \subseteq SeqToSet(iter.selected)
        /\ \A q \in WorldPoints : Occurrences(iter.yielded, q) = fed.points[q]
        /\ Len(iter.yielded) = header.number_of_points

\* C2: point conservation.  At every point of a write the points flushed into
\* hierarchy entries plus the points held in open chunks are the accepted
\* points, and once the writer is closed the point counts of the hierarchy
\* entries sum to header.number_of_points with no open chunk left.
C2_PointConservation ==
    new_result = "Ok" =>
        /\ FlushedPoints + OpenPoints = fed.ok
        /\ is_closed => FlushedPoints = header.number_of_points /\ OpenPoints = 0

\* a closed writer holding entries flushed by the write loop and by close
C2_Witness ==
    /\ is_closed /\ Len(hierarchy) >= 2
    /\ fed.ok >= 4 /\ FlushedPoints = fed.ok

\* C3: GPS time range.  After a write that closed the writer,
\* gpstime_minimum is at most and gpstime_maximum at least the gps_time of
\* every accepted point.
C3_GpsTimeRange ==
    WriteReturnedClosed =>
        \A q \in WorldPoints :
            fed.points[q] > 0 =>
                /\ copc_info.gpstime_minimum <= q.gps_time
                /\ copc_info.gpstime_maximum >= q.gps_time

\* C4: error precedence.  A write that accepted a point and closed the writer
\* returns PointAttributesDoNotMatch if a point of its input failed the format
\* check, otherwise PointNotInBounds if a point was outside the root cube,
\* otherwise Ok, in whatever order the rejected points came; the acceptable
\* points after a rejected one were all processed.
C4_ErrorPrecedence ==
    WriteReturnedClosed =>
        /\ result = IF fed.bad_format THEN "PointAttributesDoNotMatch"
                    ELSE IF fed.outside THEN "PointNotInBounds"
                    ELSE "Ok"
        /\ FlushedPoints = fed.ok

\* an out-of-bounds point came first, a point of the wrong format later, and
\* a point was accepted after the first rejection
C4_Witness ==
    /\ WriteReturnedClosed
    /\ fed.first = "bounds" /\ fed.bad_format
    /\ result = "PointAttributesDoNotMatch"
    /\ fed.ok >= 1

\* C5: acceptance.  The points the writer counts and stores are the input
\* points that match the format and lie in the closed root cube, each once:
\* header.number_of_points is their number and each is stored as often as it
\* was given; no other point is stored.
C5_Acceptance ==
    new_result = "Ok" =>
        /\ header.number_of_points = fed.ok
        /\ \A q \in WorldPoints : StoredCount(q) = fed.points[q]

\* five points through add_point_stochastic, the last of which found no
\* candidate and fell back to add_point_greedy (only that creates level 2),
\* among them points on the faces of the root cube
C5_Witness ==
    /\ num_points = 5 /\ idx = 5 /\ fed.ok = 5
    /\ \E k \in DOMAIN octree : k.level = 2
    /\ fed.points[[x |-> 0, y |-> 0, z |-> -4, gps_time |-> 2]] > 0

\* C6: write closes the writer.  Whenever write has returned having reached
\* its end (Ok, a per-point error or EmptyCopcFile), is_closed is true.
C6_WriteCloses == WriteReturned => is_closed

\* C7: closed writer.  close on a closed writer returns ClosedWriter and
\* leaves every field and the sink as they were; a write call on a closed
\* writer returns ClosedWriter and changes nothing of the writer, places no
\* point and consumes no input.
C7_CloseOnClosed ==
    is_closed =>
        \A order \in Perms(DOMAIN open_chunks) :
            close(Writer, is_closed, order) = [w |-> Writer, closed |-> TRUE, err |-> "ClosedWriter"]
C7_WriteOnClosed ==
    (is_closed /\ ~dropped') =>
        /\ result' = "ClosedWriter"
        /\ UNCHANGED <<wvars, pc, idx, fed>>
C7_ClosedWriter == []C7_CloseOnClosed /\ [][C7_WriteOnClosed]_vars

\* write has been called on a closed writer that holds points
C7_Witness ==
    /\ is_closed /\ ~dropped /\ result = "ClosedWriter"
    /\ header.number_of_points > 0 /\ hierarchy # <<>>

\* C8: empty file.  While no point has been accepted the sink holds what
\* CopcWriter::new wrote and nothing else, the compressor and the hierarchy
\* are untouched, and a write that returns returns EmptyCopcFile.
C8_EmptyCopcFile ==
    (new_result = "Ok" /\ fed.ok = 0) =>
        /\ sink = NewSink(start, header)
        /\ hierarchy = <<>>
        /\ compressor = CompressorNew(NewSink(start, header))
        /\ pc = "idle" => result \in {"none", "EmptyCopcFile", "panic"}

\* a write whose every input point was rejected has returned
C8_Witness ==
    /\ pc = "idle" /\ result = "EmptyCopcFile"
    /\ fed.bad_format /\ fed.outside /\ idx >= 2
    /\ sink = NewSink(start, header)

(***************************************************************************)
(* Properties of the reader over arbitrary files (SpecQuery)               *)
(***************************************************************************)
\* C9: forward-only seeks.  The offsets the iterator has sought to so far
\* never decrease.
C9_SeeksAscend ==
    \A i, j \in 1..Len(iter.seeks) : i < j => iter.seeks[i] <= iter.seeks[j]

\* the key of the parent node, and a closed-box intersection test
Parent(k) == Key(k.level - 1, k.x \div 2, k.y \div 2, k.z \div 2)
Meets(a, b) ==
    /\ a.min.x <= b.max.x /\ b.min.x <= a.max.x
    /\ a.min.y <= b.max.y /\ b.min.y <= a.max.y
    /\ a.min.z <= b.max.z /\ b.min.z <= a.max.z
\* key k and every ancestor of it up to the root have a hierarchy entry and,
\* under Within(q), a cube meeting q
RECURSIVE Reachable(_, _)
Reachable(k, q) ==
    /\ k \in DOMAIN hierarchy_entries
    /\ q.kind = "Within" =>
           Meets(bounds(k, CubeAround(r_copc_info.center, r_copc_info.halfsize)), q.bounds)
    /\ \/ k = RootKey
       \/ k.level > 0 /\ Reachable(Parent(k), q)
LevelBounds(lod) ==
    IF lod.kind = "All" THEN [lmin |-> 0, lmax |-> I32_MAX]
    ELSE IF lod.kind = "Level" THEN [lmin |-> lod.level, lmax |-> lod.level + 1]
    ELSE IF lod.kind = "Resolution" THEN [lmin |-> 0, lmax |-> LevelRange(lod)[2]]
    ELSE [lmin |-> lod.min, lmax |-> lod.max]
ExpectedNodes(lod, q) ==
    {e \in {hierarchy_entries[k] : k \in DOMAIN hierarchy_entries} :
        /\ e.point_count > 0
        /\ LevelBounds(lod).lmin <= e.key.level /\ e.key.level < LevelBounds(lod).lmax
        /\ Reachable(e.key, q)}

\* C10: query planner.  The nodes load_octree_for_query returned for the
\* selection of the iterator are exactly the entries with points, of a level
\* in [lmin, lmax), reachable from the root through entries (that meet the
\* query box), each once.
C10_QueryNodes ==
    iter.state # "none" =>
        /\ SeqToSet(iter.selected) = ExpectedNodes(iter.lod, iter.query)
        /\ Cardinality(SeqToSet(iter.selected)) = Len(iter.selected)

\* a query over a hierarchy with an entry that has points but no parent
\* entry, an entry without points, and a node that is selected
C10_Witness ==
    /\ iter.state # "none" /\ iter.selected # <<>>
    /\ iter.query.kind = "Within"
    /\ \E k \in DOMAIN hierarchy_entries :
           /\ hierarchy_entries[k].point_count > 0
           /\ k.level > 0 /\ Parent(k) \notin DOMAIN hierarchy_entries
    /\ \E k \in DOMAIN hierarchy_entries : hierarchy_entries[k].point_count = 0

\* box `outer` contains box `inner`
Contains(outer, inner) ==
    /\ outer.min.x <= inner.min.x /\ inner.max.x <= outer.max.x
    /\ outer.min.y <= inner.min.y /\ inner.max.y <= outer.max.y
    /\ outer.min.z <= inner.min.z /\ inner.max.z <= outer.max.z

\* what points(levels, selection) on the open reader selects and, iterated to
\* its end, yields
PointsOutcome(levels, selection) == RunIter(PointsResult(levels, selection), sink.data)

\* the iteration of points(All, Within(q2)) is over
WithinQueryOver ==
    /\ reader = "open" /\ iter.state \in {"ended", "panic"}
    /\ iter.lod = LodAll /\ iter.query.kind = "Within"

\* C11: query monotonicity.  Once points(All, Within(q2)) has been iterated to
\* its end, for every box q1 that q2 contains the nodes selected and the points
\* yielded by points(All, Within(q1)) on the same file are among those selected
\* and yielded for q2.
C11_QueryMonotone ==
    WithinQueryOver =>
        \A q1 \in QueryBoxes :
            Contains(iter.query.bounds, q1) =>
                /\ SeqToSet(PointsOutcome(LodAll, Within(q1)).selected)
                       \subseteq SeqToSet(iter.selected)
                /\ SeqToSet(PointsOutcome(LodAll, Within(q1)).yielded)
                       \subseteq SeqToSet(iter.yielded)

\* every element occurs in sequence s at most as often as in sequence t
SubBag(s, t) == \A e \in SeqToSet(s) : Occurrences(s, e) <= Occurrences(t, e)

\* the iteration of points(LevelMinMax(0, L + 1), All) is over
LevelQueryOver ==
    /\ reader = "open" /\ iter.state \in {"ended", "panic"}
    /\ iter.lod.kind = "LevelMinMax" /\ iter.lod.min = 0 /\ iter.lod.max >= 1
    /\ iter.query = BoundsAll

\* C12: LOD monotonicity.  Once points(LevelMinMax(0, L + 1), All) has been
\* iterated to its end, the nodes selected and the points yielded by
\* points(LevelMinMax(0, L), All) on the same file are among those selected
\* and yielded, each point at most as often.
C12_LodMonotone ==
    LevelQueryOver =>
        /\ SeqToSet(PointsOutcome(LodLevelMinMax(0, iter.lod.max - 1), BoundsAll).selected)
               \subseteq SeqToSet(iter.selected)
        /\ SubBag(PointsOutcome(LodLevelMinMax(0, iter.lod.max - 1), BoundsAll).yielded,
                  iter.yielded)

\* the deeper range selected the nodes of the shallower one, which has some,
\* and a node more
C12_Witness ==
    /\ LevelQueryOver /\ iter.state = "ended"
    /\ PointsOutcome(LodLevelMinMax(0, iter.lod.max - 1), BoundsAll).selected # <<>>
    /\ Len(PointsOutcome(LodLevelMinMax(0, iter.lod.max - 1), BoundsAll).yielded)
           < Len(iter.yielded)
    /\ \E i \in 1..Len(iter.selected) : iter.selected[i].key.level = iter.lod.max - 1

\* the nodes the iterator has popped so far, in the order it popped them
\* (from the end of the selected nodes)
PoppedNodes ==
    [i \in 1..(Len(iter.selected) - Len(iter.nodes)) |->
        iter.selected[Len(iter.selected) + 1 - i]]

\* the points stored in the chunks of the nodes of `nodes`, in that order
RECURSIVE ChunkRecords(_)
ChunkRecords(nodes) ==
    IF nodes = <<>> THEN <<>>
    ELSE [i \in 1..nodes[1].point_count |-> from_raw(sink.data[r_start + nodes[1].offset].payload[i])]
         \o ChunkRecords(Tail(nodes))

SelectedPoints == SumSeq([i \in 1..Len(iter.selected) |-> iter.selected[i].point_count])

\* an iterator of points(.., All) exists
UnfilteredIter == reader = "open" /\ iter.state # "none" /\ iter.query = BoundsAll

\* C13: the unfiltered iterator.  With BoundsSelection::All the iterator never
\* fails; it has sought once to the offset of each node it popped, in the
\* order it popped them; the points yielded are the first records of the
\* chunks of those nodes, every record of a node before the next node is
\* popped; the points yielded and total_points_left add up to the sum of
\* point_count over the selected nodes; the iteration ends only when that sum
\* has been yielded and every selected node sought; and with
\* total_points_left = 0 next returns None and changes nothing.
C13_UnfilteredIter ==
    UnfilteredIter =>
        /\ iter.state # "panic"
        /\ iter.seeks = [i \in 1..Len(PoppedNodes) |-> PoppedNodes[i].offset]
        /\ Len(iter.yielded) + iter.node_points_left
               = SumSeq([i \in 1..Len(PoppedNodes) |-> PoppedNodes[i].point_count])
        /\ iter.yielded = SubSeq(ChunkRecords(PoppedNodes), 1, Len(iter.yielded))
        /\ Len(iter.yielded) + iter.total_points_left = SelectedPoints
        /\ iter.state = "ended" =>
               Len(iter.yielded) = SelectedPoints /\ Len(iter.seeks) = Len(iter.selected)
        /\ iter.total_points_left = 0 =>
               IterNextResult(iter, sink.data) = [iter EXCEPT !.state = "ended"]

\* the iteration over three nodes ended
C13_Witness ==
    /\ UnfilteredIter /\ iter.state = "ended"
    /\ Len(iter.seeks) >= 3 /\ Len(iter.yielded) >= 4

\* the raw records stored in the chunks of the nodes of `nodes`, in that order
RECURSIVE RawRecords(_)
RawRecords(nodes) ==
    IF nodes = <<>> THEN <<>>
    ELSE SubSeq(sink.data[r_start + nodes[1].offset].payload, 1, nodes[1].point_count)
         \o RawRecords(Tail(nodes))

\* the raw record r has each coordinate between the quantized corners of box b,
\* the ends included
InQuantized(r, b) ==
    /\ Inverse(b.min.x) <= r.x /\ r.x <= Inverse(b.max.x)
    /\ Inverse(b.min.y) <= r.y /\ r.y <= Inverse(b.max.y)
    /\ Inverse(b.min.z) <= r.z /\ r.z <= Inverse(b.max.z)

\* the records of `records` that are in the quantized box b, as points
RECURSIVE PointsInQuantized(_, _)
PointsInQuantized(records, b) ==
    IF records = <<>> THEN <<>>
    ELSE (IF InQuantized(records[1], b) THEN <<from_raw(records[1])>> ELSE <<>>)
         \o PointsInQuantized(Tail(records), b)

\* an iterator of points(.., Within(q)) exists
FilteredIter ==
    /\ reader = "open" /\ iter.state \in {"active", "ended"}
    /\ iter.query.kind = "Within"

\* C14: the filtered iterator.  With BoundsSelection::Within(q) the points
\* yielded so far are, in order, those of the records decompressed so far
\* whose raw x, y, z lie between the quantized corners of q, ends included;
\* every decompressed record, yielded or not, took one from
\* total_points_left; and total_points_left (the size hint) is at least the
\* number of points the iterator yields from here to its end.
C14_FilteredIter ==
    FilteredIter =>
        /\ iter.yielded =
               PointsInQuantized(SubSeq(RawRecords(PoppedNodes), 1,
                                        SelectedPoints - iter.total_points_left),
                                 iter.query.bounds)
        /\ SelectedPoints - iter.total_points_left
               = SumSeq([i \in 1..Len(PoppedNodes) |-> PoppedNodes[i].point_count])
                 - iter.node_points_left
        /\ Len(RunIter(iter, sink.data).yielded) - Len(iter.yielded) <= iter.total_points_left

\* the iteration ended having yielded a point on a face of the quantized box
\* and skipped a point outside it
C14_Witness ==
    /\ FilteredIter /\ iter.state = "ended"
    /\ Len(iter.yielded) < SelectedPoints
    /\ \E i \in 1..Len(iter.yielded) :
           Inverse(iter.yielded[i].x) = Inverse(iter.query.bounds.min.x)

\* the LAS header of the file the reader was opened on
FileHeader == sink.data[r_start].payload

\* every node with a hierarchy entry can be reached from the root through
\* nodes with entries, as in a file a COPC writer produced
HierarchyConnected == \A k \in DOMAIN hierarchy_entries : Reachable(k, BoundsAll)

\* the iteration of points(All, Within(q)) is over for a box q that contains
\* the root cube
WholeCubeQueryOver ==
    /\ WithinQueryOver /\ HierarchyConnected
    /\ Contains(iter.query.bounds, CubeAround(r_copc_info.center, r_copc_info.halfsize))

\* C15: query containment.  For a box q that contains the whole root cube,
\* boxes with infinite coordinates included, points(All, Within(q)) returns an
\* iterator, and iterated to its end it has yielded header.number_of_points
\* points.
C15_WholeCubeQuery ==
    WholeCubeQueryOver =>
        /\ iter.state = "ended"
        /\ Len(iter.yielded) = FileHeader.number_of_points

\* max(1, ceil(log2(s0 / r)) + 1) for a spacing s0 and a resolution r that are
\* positive and finite
SpacingLevelMax(resolution, spacing) ==
    1 + LeastPower(0, spacing.num * resolution.den, spacing.den * resolution.num)

\* resolution r1 is at least as fine as r2
Finer(r1, r2) == r1.num * r2.den <= r2.num * r1.den

\* points(Resolution(r), ..) has been called
ResolutionQuery == reader = "open" /\ iter.state # "none" /\ iter.lod.kind = "Resolution"

\* C16: resolution to levels.  For Resolution(r) on a file of root spacing s0
\* the level range of the query planner is lmin = 0 and
\* lmax = max(1, ceil(log2(s0 / r)) + 1), and every resolution at least as
\* fine as r gets an lmax at least as large.
C16_ResolutionLevels ==
    ResolutionQuery =>
        /\ LevelRange(iter.lod)
               = <<0, SpacingLevelMax(iter.lod.resolution, r_copc_info.spacing)>>
        /\ \A r \in Resolutions :
               Finer(r, iter.lod.resolution) =>
                   LevelRange(LodResolution(r.num, r.den))[2] >= LevelRange(iter.lod)[2]

\* the entries with point_count >= 0 of `page` and of the pages reachable
\* from it, the page of an entry with point_count = -1 being the
\* byte_size / 32 entries at file offset entry.offset from the stream start
RECURSIVE PageLeaves(_, _)
PageLeaves(page, data) ==
    IF page = <<>> THEN {}
    ELSE IF Last(page).point_count = -1
    THEN PageLeaves(Front(page), data)
         \cup PageLeaves(EntriesAt(data, Last(page).offset + r_start, Last(page).byte_size),
                         data)
    ELSE {Last(page)} \cup PageLeaves(Front(page), data)

\* the root page of the opened file
RootPage ==
    EntriesAt(sink.data, r_copc_info.root_hier_offset + r_start, r_copc_info.root_hier_size)

\* the file of the opened reader keeps part of its hierarchy in a second page
HasSubPage == \E i \in 1..Len(RootPage) : RootPage[i].point_count = -1

\* C17: the map of an opened reader holds exactly the entries with
\* point_count >= 0 of the root page and of the pages reachable from it, a
\* page reference being followed to the file offset entry.offset from the
\* stream start, and never an entry with point_count = -1.
C17_HierarchyMaterialized ==
    reader = "open" =>
        /\ {hierarchy_entries[k] : k \in DOMAIN hierarchy_entries}
               = PageLeaves(RootPage, sink.data)
        /\ \A k \in DOMAIN hierarchy_entries : hierarchy_entries[k].point_count >= 0

\* the VLRs of the file in the stream, in the order of the file
FileVlrs ==
    ReadRecords(sink.data, start + LasHeaderLen,
                sink.data[start].payload.number_of_variable_length_records, "vlr", <<>>).vlrs

\* the file has a COPC info VLR, which is not its first VLR
CopcInfoNotFirst ==
    /\ \E i \in 2..Len(FileVlrs) : VlrMatches(FileVlrs[i], "copc", 1)
    /\ ~VlrMatches(FileVlrs[1], "copc", 1)

\* C18: CopcReader::new returns an error on a file whose copc/1 info VLR is
\* present but is not the first VLR of the file.
C18_CopcInfoFirst ==
    (reader # "none" /\ CopcInfoNotFirst) => reader # "open"

\* the spellings of a user id that differ in case only
Spellings(user_id) ==
    CASE user_id = "copc" -> {"copc", "COPC"}
      [] user_id = "laszip encoded" -> {"laszip encoded", "LASzip Encoded"}
      [] OTHER -> {user_id}

\* the file in the stream has a VLR or an EVLR of this user id, compared
\* without regard to case, and record id
HasRecord(user_id, record_id) ==
    \E p \in DOMAIN sink.data :
        /\ sink.data[p].kind \in {"vlr", "evlr"}
        /\ sink.data[p].payload.user_id \in Spellings(user_id)
        /\ sink.data[p].payload.record_id = record_id

HasCopcInfo == HasRecord("copc", 1)
HasHierarchy == HasRecord("copc", 1000)
HasLaszip == HasRecord("laszip encoded", 22204)
PrerequisiteErrors == {"CopcInfoVlrNotFound", "EptHierarchyVlrNotFound", "LasZipVlrNotFound"}

\* C19: CopcReader::new returns CopcInfoVlrNotFound on a file with no copc/1
\* record, EptHierarchyVlrNotFound on a file with no copc/1000 record among
\* its VLRs and EVLRs, LasZipVlrNotFound on a file with no
\* laszip encoded/22204 record, the user ids being compared without regard to
\* case and the first missing record in this order deciding the error; on a
\* file with the three records, the hierarchy a VLR or an EVLR, it returns
\* none of these errors.
C19_Prerequisites ==
    reader # "none" =>
        /\ ~HasCopcInfo => reader = "CopcInfoVlrNotFound"
        /\ (HasCopcInfo /\ ~HasHierarchy) => reader = "EptHierarchyVlrNotFound"
        /\ (HasCopcInfo /\ HasHierarchy /\ ~HasLaszip) => reader = "LasZipVlrNotFound"
        /\ (HasCopcInfo /\ HasHierarchy /\ HasLaszip) => reader \notin PrerequisiteErrors
\* a file with the COPC info and the hierarchy but no LAZ VLR was refused
C19_Witness ==
    /\ reader = "LasZipVlrNotFound"
    /\ HasCopcInfo /\ HasHierarchy /\ ~HasLaszip

\* the sizes CopcWriter::new was asked for, a size < 1 asking for the default
AskedMin == IF fed.min_size < 1 THEN MIN_NODE_SIZE_DEFAULT ELSE fed.min_size
AskedMax == IF fed.max_size < 1 THEN MAX_NODE_SIZE_DEFAULT ELSE fed.max_size

\* C20: CopcWriter::new takes the default minimum for min_size < 1 and the
\* default maximum for max_size < 1, and fails with InvalidNodeSize exactly
\* when the resulting minimum is not below the resulting maximum; a writer
\* that was created has 1 <= min_node_size() < max_node_size() at all times.
C20_NodeSizes ==
    /\ new_result = "InvalidNodeSize" <=> AskedMin >= AskedMax
    /\ new_result = "Ok" =>
           /\ min_node_size = AskedMin /\ max_node_size = AskedMax
           /\ 1 <= min_node_size /\ min_node_size < max_node_size
\* a writer created with both defaults was written to and closed
C20_Witness ==
    /\ new_result = "Ok" /\ fed.min_size < 1 /\ fed.max_size < 1
    /\ fed.ok >= 1 /\ is_closed

\* the step is an iteration of the loop of write on the acceptable point p
PlacesPoint(p) == pc = "writing" /\ idx' = idx + 1 /\ Acceptable(p) /\ fed' = Feed(fed, p)

\* the step leaves the writer as add_point_greedy, as add_point_stochastic
\* with some random number, leaves it
GreedyStep(p) == Writer' = add_point_greedy(Writer, p).w
StochasticStep(p) ==
    \E r \in 0..(RandDen - 1) :
        Writer' = add_point_stochastic(Writer, p,
                                       ExpectedLevels(num_points, max_node_size), r).w

GivenFormat == fed.header.point_data_record_format % 64
\* the raw header in the stream at the start of the file
StoredHeader == sink.data[start].payload
\* the format the claim gives a header of format f
FormatFor(f) == CASE f = 1 -> 6 [] f = 3 -> 7 [] OTHER -> f

\* C22: CopcWriter::new accepts the point data record formats 1, 3, 6, 7
\* and 8 only; the header in the stream has format 6 for 1 and 7 for 3 with
\* the record length 2 more than given, the format and the record length
\* given for 6, 7 and 8, both compression bits of the format byte set and
\* version 1.4.
C22_HeaderUpgrade ==
    /\ GivenFormat \notin {1, 3, 6, 7, 8} => new_result # "Ok"
    /\ (new_result # "Ok" /\ GivenFormat \in {1, 3, 6, 7, 8})
           => new_result \in {"InvalidNodeSize", "LasCrsError"}
    /\ new_result = "Ok" =>
           /\ StoredHeader.point_data_record_format % 64 = FormatFor(GivenFormat)
           /\ StoredHeader.point_data_record_format \div 64 = 3
           /\ StoredHeader.point_data_record_length
                  = fed.header.point_data_record_length
                    + (IF GivenFormat \in {1, 3} THEN 2 ELSE 0)
           /\ StoredHeader.version = <<1, 4>>
\* a writer made from a LAS 1.2 header of format 1 with a compression bit
\* set was written to and closed
C22_Witness ==
    /\ new_result = "Ok" /\ is_closed
    /\ fed.header.version = <<1, 2>> /\ fed.header.point_data_record_format = 129
    /\ StoredHeader.point_data_record_format = 198

\* the user id is this one, whatever the case of its letters
IsUser(user_id, lower) ==
    user_id \in CASE lower = "copc" -> {"copc", "COPC"}
                  [] lower = "laszip encoded" -> {"laszip encoded", "LASzip Encoded"}
                  [] lower = "lasf_projection" -> {"lasf_projection", "LASF_Projection"}
                  [] lower = "lasf_spec" -> {"lasf_spec", "LASF_Spec"}

\* the records of the input header that the writer is not to forward
ClaimDrops(vlr) ==
    \/ IsUser(vlr.user_id, "copc") /\ vlr.record_id \in {1, 1000}
    \/ IsUser(vlr.user_id, "laszip encoded") /\ vlr.record_id = 22204
    \/ IsUser(vlr.user_id, "lasf_projection") /\ vlr.record_id \in 34735..34737
    \/ IsUser(vlr.user_id, "lasf_spec")
       /\ ((100 <= vlr.record_id /\ vlr.record_id < 355) \/ vlr.record_id = 65535)
ClaimKeeps(vlr) == ~ClaimDrops(vlr)

\* the input header carried a WKT CRS record, as a VLR or as an EVLR
InputHasWkt ==
    \E i \in 1..Len(fed.header.vlrs \o fed.header.evlrs) :
        /\ IsUser((fed.header.vlrs \o fed.header.evlrs)[i].user_id, "lasf_projection")
        /\ (fed.header.vlrs \o fed.header.evlrs)[i].record_id = 2112

\* C23: the VLRs of the file of a writer are the COPC info VLR (copc/1, a
\* payload of 160 bytes), the LAZ VLR (laszip encoded/22204), the VLRs of
\* the input header in their order without copc/1, copc/1000,
\* laszip encoded/22204, LASF_Projection 34735..=34737 and LASF_Spec 100..355
\* and 65535 (user ids in any case), then a WKT VLR LASF_Projection/2112 made
\* by the writer iff the input had no such VLR or EVLR; one copc/1 and one
\* laszip VLR exist.
C23_VlrList ==
    new_result = "Ok" =>
        /\ Len(FileVlrs) >= 2
        /\ FileVlrs[1].user_id = "copc" /\ FileVlrs[1].record_id = 1
        /\ sink.data[start + LasHeaderLen].len = VlrHeaderLen + CopcInfoLen
        /\ FileVlrs[2].user_id = "laszip encoded" /\ FileVlrs[2].record_id = 22204
        /\ SubSeq(FileVlrs, 3, Len(FileVlrs))
               = SelectSeq(fed.header.vlrs, ClaimKeeps)
                 \o (IF InputHasWkt THEN <<>> ELSE <<WktVlr.payload>>)
        /\ Cardinality({i \in 1..Len(FileVlrs) :
                            IsUser(FileVlrs[i].user_id, "copc") /\ FileVlrs[i].record_id = 1}) = 1
        /\ Cardinality({i \in 1..Len(FileVlrs) :
                            /\ IsUser(FileVlrs[i].user_id, "laszip encoded")
                            /\ FileVlrs[i].record_id = 22204}) = 1
\* a writer whose input header had a copc/1 and a laszip VLR among VLRs to
\* forward was closed: its file has five VLRs
C23_Witness ==
    /\ new_result = "Ok" /\ is_closed
    /\ \E i \in 1..Len(fed.header.vlrs) :
           fed.header.vlrs[i].user_id = "COPC" /\ fed.header.vlrs[i].record_id = 1
    /\ Len(FileVlrs) = 5

(***************************************************************************)
(* Properties of CopcWriter::from_path (SpecPath)                          *)
(***************************************************************************)
\* the file name ends in ".copc.laz", in any case, after at least one piece
EndsInCopcLaz(name) ==
    /\ Len(name) >= 5
    /\ SubSeq(name, Len(name) - 3, Len(name))
           \in {<<".", c, ".", l>> : c \in {"copc", "COPC"}, l \in {"laz", "Laz"}}

\* the final extension of the path is laz and the extension of its file stem
\* is copc, whatever the case
HasCopcExtension == file_name(path) # <<>> /\ EndsInCopcLaz(file_name(path)[1])

\* C24: from_path goes on to create the file iff the final extension of the
\* path is "laz" and the extension of its file stem is "copc", in any case;
\* for every other path it returns WrongCopcExtension and no file was created
\* or truncated.
C24_CopcExtension ==
    new_result # "none" =>
        /\ new_result # "WrongCopcExtension" <=> HasCopcExtension
        /\ new_result = "WrongCopcExtension" => (~created /\ sink.data = <<>>)
\* a path in upper case was accepted and the file created
C24_Witness ==
    /\ created /\ new_result = "Ok"
    /\ path = <<"a", ".", "COPC", ".", "Laz">>

(***************************************************************************)
(* Properties of the file a closed writer leaves (Spec, SpecHeader)        *)
(***************************************************************************)
\* the positions of the copc/1000 EVLRs in the stream
HierarchyEvlrs ==
    {p \in DOMAIN sink.data :
         /\ sink.data[p].kind = "evlr"
         /\ sink.data[p].payload.user_id = "copc" /\ sink.data[p].payload.record_id = 1000}

\* C25: after a successful close, copc_info.root_hier_offset is the position
\* of the first payload byte of the copc/1000 EVLR, 60 bytes after the start
\* of that EVLR, copc_info.root_hier_size is 32 times the number of hierarchy
\* entries, and the COPC info VLR that follows the LAS header holds these
\* values.
C25_RootHierarchy ==
    is_closed =>
        /\ Cardinality(HierarchyEvlrs) = 1
        /\ \A p \in HierarchyEvlrs :
               /\ copc_info.root_hier_offset = p + 60
               /\ sink.data[p].payload.data = hierarchy
        /\ copc_info.root_hier_size = 32 * Len(hierarchy)
        /\ sink.data[start + LasHeaderLen].kind = "vlr"
        /\ sink.data[start + LasHeaderLen].payload.user_id = "copc"
        /\ sink.data[start + LasHeaderLen].payload.record_id = 1
        /\ sink.data[start + LasHeaderLen].payload.data.root_hier_offset
               = copc_info.root_hier_offset
        /\ sink.data[start + LasHeaderLen].payload.data.root_hier_size
               = copc_info.root_hier_size
\* a writer was closed with three or more hierarchy entries
C25_Witness == is_closed /\ Len(hierarchy) >= 3 /\ copc_info.root_hier_size >= 96

\* C26: after a successful close, the LAS header rewritten at the start of
\* the file declares start_of_first_evlr as the position at which the
\* hierarchy EVLR was written and number_of_evlrs as the number of forwarded
\* EVLRs plus one, whether or not the input header carried EVLRs.
C26_HeaderEvlrs ==
    is_closed =>
        \A p \in HierarchyEvlrs : StoredHeader.evlr = <<p, Len(header.evlrs) + 1>>
\* the same for the writers whose input header carried no EVLRs
C26_WithoutEvlrs ==
    (is_closed /\ header.evlrs = <<>>) =>
        \A p \in HierarchyEvlrs : StoredHeader.evlr = <<p, 1>>

(***************************************************************************)
(* Properties of the octree the writer fills (Spec)                        *)
(***************************************************************************)
\* the chunks the compressor has written to the sink
EmittedChunks == {sink.data[p].payload : p \in {q \in DOMAIN sink.data : sink.data[q].kind = "chunk"}}

\* no node, no open chunk, no emitted chunk and no hierarchy entry holds more
\* than max_node_size points
NodeCapacity ==
    new_result = "Ok" =>
        /\ \A k \in DOMAIN octree : octree[k] <= max_node_size
        /\ \A k \in DOMAIN open_chunks : Len(open_chunks[k]) <= max_node_size
        /\ \A c \in EmittedChunks : Len(c) <= max_node_size
        /\ \A i \in DOMAIN hierarchy : hierarchy[i].point_count <= max_node_size
\* a step that raises the point_count of a node raises it by one, on a node
\* that was not full
PlacedInRoom ==
    \A k \in DOMAIN octree :
        (k \in DOMAIN octree' /\ octree'[k] # octree[k]) =>
            /\ octree'[k] = octree[k] + 1
            /\ ~is_full(octree[k], max_node_size)

\* C27: node capacity.  In every state reachable by any interleaving of greedy
\* and stochastic adds no octree node's point_count exceeds max_node_size, a
\* point is never placed into a node that is already full, and every emitted
\* chunk holds at most max_node_size points.
C27_NodeCapacity == []NodeCapacity /\ [][PlacedInRoom]_vars
\* after stochastic and greedy adds a node below the root is full, the root
\* holds points, and a chunk of max_node_size >= 2 points has been emitted
C27_Witness ==
    /\ new_result = "Ok" /\ max_node_size >= 2
    /\ num_points >= min_node_size + max_node_size /\ idx > num_points
    /\ octree[RootKey] > 0
    /\ \E k \in DOMAIN octree : k.level >= 1 /\ octree[k] = max_node_size
    /\ \E c \in EmittedChunks : Len(c) = max_node_size

\* points of the closed root cube: its minimum and its maximum corner, its
\* centre, and the input points that lie in it
CubePoints ==
    {Pt(RootBounds.min.x, RootBounds.min.y, RootBounds.min.z, 2, TRUE),
     Pt(RootBounds.max.x, RootBounds.max.y, RootBounds.max.z, 2, TRUE),
     Pt(CenterPoint.x, CenterPoint.y, CenterPoint.z, 2, TRUE)}
    \cup {p \in InputPoints : Acceptable(p)}

\* add_point_greedy finds a node for the point in the tree
GreedyFinds(tree, p) == GreedyWalk(tree, <<RootKey>>, p).node_key # NoKey
\* add_point_stochastic with no candidate falls back to add_point_greedy on
\* the tree its walk left, which finds a node for the point
FallbackFinds(sw, p) == sw.node_candidates = <<>> => GreedyFinds(sw.tree, p)

DropStep == ~dropped /\ dropped'

\* the drop of a writer that is not closed is one call of close, whose error
\* is a panic
DropAttemptsClose ==
    (DropStep /\ ~is_closed) =>
        \E order \in Perms(DOMAIN open_chunks) :
            /\ Writer' = close(Writer, is_closed, order).w
            /\ is_closed' = close(Writer, is_closed, order).closed
            /\ result' = IF close(Writer, is_closed, order).err = "Ok"
                         THEN "dropped" ELSE "panic"
\* the drop of a closed writer leaves the sink, its position and the writer
\* as they are, and ends without an error
DropOfClosed ==
    (DropStep /\ is_closed) => (result' = "dropped" /\ UNCHANGED wvars)
\* a closed writer stays closed and its sink is written no more
FinalizedOnce == is_closed => (is_closed' /\ sink' = sink)

\* C29: dropping a writer that is not closed attempts close exactly once,
\* dropping a writer that is closed performs no write or seek on the sink,
\* and over any lifetime (new, write*, drop) the file is finalized at most
\* once.
C29_DropCloses == [][DropAttemptsClose /\ DropOfClosed /\ FinalizedOnce]_vars
\* a writer whose write accepted no point, and so did not close it, has been
\* dropped: the close of drop failed
C29_Witness ==
    /\ dropped /\ ~is_closed /\ result = "panic"
    /\ fed.outside /\ header.number_of_points = 0

(***************************************************************************)
(* Properties of the serialization of hierarchy pages (SpecEntry)          *)
(***************************************************************************)
\* byte j (from 0) of the little-endian two's complement of the i32 v
ByteOf(v, j) == (v \div (256 ^ j)) % 256
\* the 32 bytes of the i-th entry in the data
EntryBytes(data, i) == SubSeq(data, 32 * (i - 1) + 1, 32 * i)
\* the 32 bytes hold level, x, y, z as i32, offset as u64, byte_size and
\* point_count as i32, little-endian
LaidOut(b, e) ==
    /\ Len(b) = 32
    /\ \A j \in 0..3 :
           /\ b[1 + j] = ByteOf(e.key.level, j)
           /\ b[5 + j] = ByteOf(e.key.x, j)
           /\ b[9 + j] = ByteOf(e.key.y, j)
           /\ b[13 + j] = ByteOf(e.key.z, j)
           /\ b[25 + j] = ByteOf(e.byte_size, j)
           /\ b[29 + j] = ByteOf(e.point_count, j)
    /\ \A k \in 0..3 :
           /\ b[17 + 2 * k] = e.offset[k + 1] % 256
           /\ b[18 + 2 * k] = e.offset[k + 1] \div 256

\* C30: Entry serialization round trip.  Entry::write_to emits exactly 32
\* bytes for an entry (level, x, y, z as i32, offset as u64, byte_size and
\* point_count as i32, little-endian) and Entry::read_from of those bytes is
\* the entry; HierarchyPage::read_from of the data of into_evlr(page), with
\* the page's byte_size, returns the entries of the page in their order.
C30_EntryRoundTrip ==
    /\ buffer # <<>> =>
           /\ buffer[1].user_id = "copc" /\ buffer[1].record_id = 1000
           /\ Len(buffer[1].data) = 32 * Len(hpage)
           /\ \A i \in 1..Len(hpage) :
                  /\ LaidOut(EntryBytes(buffer[1].data, i), hpage[i])
                  /\ Entry_read_from(EntryBytes(buffer[1].data, i)) = hpage[i]
    /\ read_back # <<>> => (read_back[1].ok /\ read_back[1].entries = hpage)
\* a page of two different entries, one of them a reference to another page
\* with negative and greatest fields, has been written and read back
C30_Witness ==
    /\ read_back # <<>> /\ Len(hpage) = 2 /\ hpage[1] # hpage[2]
    /\ \E i \in 1..2 : hpage[i].point_count = -1 /\ hpage[i].byte_size = I32_MAX
    /\ \E i \in 1..2 : hpage[i].key.z < 0 /\ hpage[i].byte_size = -1
    /\ Len(read_back[1].entries) = 2

(***************************************************************************)
(* Properties of the serialization of the COPC info (SpecInfo)             *)
(***************************************************************************)
\* C31: CopcInfo::into_vlr produces a payload of exactly 160 bytes whose bytes
\* 72..160, the eleven reserved u64, are all zero, and CopcInfo::read_from
\* of that payload returns the same nine fields.
C31_InfoRoundTrip ==
    /\ info_vlr # <<>> =>
           /\ Len(info_vlr[1].data) = 160
           /\ \A j \in 1..160 : info_vlr[1].data[j] \in 0..255
           /\ \A j \in 73..160 : info_vlr[1].data[j] = 0
           /\ CopcInfo_read_from(info_vlr[1].data).info = info
    /\ info_back # <<>> => (info_back[1].ok /\ info_back[1].info = info)
\* a COPC info with the greatest root_hier_offset, another root_hier_size,
\* f64::MAX as GPS time and a NaN spacing has been written and read back
C31_Witness ==
    /\ info_back # <<>> /\ info_back[1].ok
    /\ info.root_hier_offset = U64(65535, 65535, 65535, 65535)
    /\ info.root_hier_size = U64(32, 1, 0, 32768)
    /\ info.gpstime_minimum = Floats.max /\ info.spacing = Floats.nan
    /\ info.center.y = Floats.neg

(***************************************************************************)
(* Properties of the voxel keys (SpecKey)                                  *)
(***************************************************************************)
\* the bit of dir that child puts in x (0), y (1), z (2)
DirBit(dir, axis) == (dir \div (2 ^ axis)) % 2
\* c = 2 v + bit
Doubled(c, v, bit) == c % 2 = bit /\ c \div 2 = v
\* children() lists, in direction order, keys of the next level with the
\* coordinates (2x + bit0, 2y + bit1, 2z + bit2) of their direction
ChildLaw ==
    vchildren # <<>> =>
        /\ Len(vchildren[1]) = 8
        /\ \A dir \in 0..7 :
               /\ vchildren[1][dir + 1].level = vkey.level + 1
               /\ Doubled(vchildren[1][dir + 1].x, vkey.x, DirBit(dir, 0))
               /\ Doubled(vchildren[1][dir + 1].y, vkey.y, DirBit(dir, 1))
               /\ Doubled(vchildren[1][dir + 1].z, vkey.z, DirBit(dir, 2))
\* the half of cube P that lies at (a, b, c), each 0 (lower) or 1 (upper)
Octant(P, h, a, b, c) ==
    [min |-> [x |-> P.min.x + a * h, y |-> P.min.y + b * h, z |-> P.min.z + c * h],
     max |-> [x |-> P.min.x + (a + 1) * h, y |-> P.min.y + (b + 1) * h,
              z |-> P.min.z + (c + 1) * h]]
\* cubes A and B share no inner point
Apart(A, B) ==
    \/ A.max.x <= B.min.x \/ B.max.x <= A.min.x
    \/ A.max.y <= B.min.y \/ B.max.y <= A.min.y
    \/ A.max.z <= B.min.z \/ B.max.z <= A.min.z
\* the cubes of the 8 children are the 8 octants of the cube of the key, in
\* direction order, and two of them share at most a face
Tiling ==
    vbounds # <<>> =>
        /\ 2 * ((vbounds[1].parent.max.x - vbounds[1].parent.min.x) \div 2)
               = vbounds[1].parent.max.x - vbounds[1].parent.min.x
        /\ \A dir \in 0..7 :
               vbounds[1].kids[dir + 1]
                   = Octant(vbounds[1].parent,
                            (vbounds[1].parent.max.x - vbounds[1].parent.min.x) \div 2,
                            DirBit(dir, 0), DirBit(dir, 1), DirBit(dir, 2))
        /\ \A i, j \in 1..8 : i # j => Apart(vbounds[1].kids[i], vbounds[1].kids[j])

Doubles(k) ==
    /\ -1073741824 <= k.x /\ k.x < 1073741824
    /\ -1073741824 <= k.y /\ k.y < 1073741824
    /\ -1073741824 <= k.z /\ k.z < 1073741824
C33_FullNodeFlushed ==
    new_result = "Ok" =>
        \A k \in DOMAIN open_chunks : Len(open_chunks[k]) < max_node_size
\* the same for the writes that place every point greedily
C33_GreedyFlushes ==
    (new_result = "Ok" /\ num_points < min_node_size + max_node_size) =>
        \A k \in DOMAIN open_chunks : Len(open_chunks[k]) < max_node_size

\* the point lies in the closed cube
InCube(b, p) ==
    /\ b.min.x <= p.x /\ p.x <= b.max.x
    /\ b.min.y <= p.y /\ p.y <= b.max.y
    /\ b.min.z <= p.z /\ p.z <= b.max.z
\* the ancestor at level j of the key, and the direction of a key in its parent
Ancestor(k, j) ==
    Key(j, k.x \div (2 ^ (k.level - j)), k.y \div (2 ^ (k.level - j)),
        k.z \div (2 ^ (k.level - j)))
DirOf(k) == (k.x % 2) + 2 * (k.y % 2) + 4 * (k.z % 2)
\* the point count of the node before the step, 0 for a node the step made
CountBefore(k) == IF k \in DOMAIN octree THEN octree[k] ELSE 0
\* the nodes whose point count the step raised
Receivers == {k \in DOMAIN octree' : octree'[k] > CountBefore(k)}
\* the step places p by add_point_greedy, called by write_greedy, by
\* write_stochastic beyond num_points, or by add_point_stochastic without a
\* candidate
GreedyPlaces(p) ==
    /\ PlacesPoint(p)
    /\ \/ UseGreedy(num_points, idx)
       \/ StochasticWalk(octree, <<RootKey>>, p,
                         ExpectedLevels(num_points, max_node_size), <<>>).node_candidates = <<>>
\* the node k received p as the first node of the depth-first search that
\* contains p and is not full: the nodes above it are full, and no node
\* searched before it (children are searched from direction 7 down) holds p
FirstFit(k, p) ==
    /\ InCube(bounds(k, RootBounds), p)
    /\ CountBefore(k) < max_node_size
    /\ octree'[k] = CountBefore(k) + 1
    /\ \A j \in 0..(k.level - 1) :
           /\ Ancestor(k, j) \in DOMAIN octree
           /\ octree[Ancestor(k, j)] >= max_node_size
    /\ \A j \in 1..k.level : \A d \in (DirOf(Ancestor(k, j)) + 1)..7 :
           ~InCube(bounds(child(Ancestor(k, j - 1), d), RootBounds), p)
\* the nodes the step made are the children of full nodes that hold p
ChildrenOfFull(p) ==
    \A k \in DOMAIN octree' \ DOMAIN octree :
        /\ Parent(k) \in DOMAIN octree
        /\ octree[Parent(k)] >= max_node_size
        /\ InCube(bounds(Parent(k), RootBounds), p)

\* C34: greedy placement puts each point into the first node of its
\* depth-first search that contains the point and is not full, and stops
\* there; children are created only for a full node that contains the point,
\* so a node of level d > 0 receives a point only when its parent is full,
\* and the k-th accepted point is never placed deeper than level
\* floor((k - 1) / max_node_size).
C34_GreedyPlacement ==
    [][\A p \in InputPoints :
           GreedyPlaces(p) =>
               /\ Cardinality(Receivers) = 1
               /\ \A k \in Receivers :
                      /\ FirstFit(k, p)
                      /\ k.level * max_node_size <= fed.ok
               /\ ChildrenOfFull(p)]_vars
\* greedy placement has put a point two levels below the root, below nodes
\* that are full, in a write that placed points stochastically before
C34_Witness ==
    /\ pc = "writing" /\ new_result = "Ok" /\ invalid_points = "Ok"
    /\ num_points >= min_node_size + max_node_size /\ idx > num_points
    /\ octree[RootKey] = max_node_size
    /\ \E k \in DOMAIN octree :
           /\ k.level = 2 /\ octree[k] > 0
           /\ octree[Parent(k)] = max_node_size

(***************************************************************************)
(* Properties of the chunks and the chunk table (Spec)                     *)
(***************************************************************************)
\* a chunk starts at position pos of the sink and is n bytes long
ChunkAt(pos, n) ==
    /\ pos \in DOMAIN sink.data
    /\ sink.data[pos].kind = "chunk"
    /\ sink.data[pos].len = n

\* C35: the offset compress_chunk returns, which the writer stores in the
\* hierarchy entry, is the absolute stream position at which the chunk's
\* first compressed byte was written, and the entry's byte_size is the number
\* of bytes from there to the end of the chunk.
C35_ChunkOffsets ==
    \A i \in DOMAIN hierarchy :
        /\ ChunkAt(hierarchy[i].offset, hierarchy[i].byte_size)
        /\ Len(sink.data[hierarchy[i].offset].payload) = hierarchy[i].point_count
\* the byte_size and the point_count of every entry are those of a chunk of
\* the sink that starts compressor.start_pos bytes before the entry's offset
C35_ShiftedOffsets ==
    \A i \in DOMAIN hierarchy :
        /\ ChunkAt(hierarchy[i].offset - compressor.start_pos, hierarchy[i].byte_size)
        /\ Len(sink.data[hierarchy[i].offset - compressor.start_pos].payload)
               = hierarchy[i].point_count

\* the chunk-table entries of the chunks the hierarchy lists, in its order
ChunksOfHierarchy ==
    [i \in 1..Len(hierarchy) |->
        [point_count |-> hierarchy[i].point_count, byte_count |-> hierarchy[i].byte_size]]
\* the chunk tables written to the sink
WrittenChunkTables ==
    {sink.data[p].payload : p \in {q \in DOMAIN sink.data : sink.data[q].kind = "chunk_table"}}

\* C36: after done(), the chunk table holds exactly one entry per chunk
\* produced by compress_chunk, in emission order, each with that chunk's
\* point_count and byte_count; the number of chunk-table entries equals the
\* number of hierarchy entries of the writer.
C36_ChunkTable ==
    is_closed =>
        /\ compressor.chunk_table = ChunksOfHierarchy
        /\ WrittenChunkTables = {ChunksOfHierarchy}
\* after done() the chunk table is the entries of the chunks followed by one
\* entry of no point and no byte
C36_TrailingEntry ==
    is_closed =>
        /\ compressor.chunk_table = Append(ChunksOfHierarchy, EmptyChunkEntry)
        /\ WrittenChunkTables = {Append(ChunksOfHierarchy, EmptyChunkEntry)}

\* the positions of the records of a kind in the sink
SegsOf(kind) == {p \in DOMAIN sink.data : sink.data[p].kind = kind}
\* the end of the header and the VLRs CopcWriter::new wrote: the position of
\* the sink when the compressor was created
CreatedAt ==
    MaxOf({p + sink.data[p].len : p \in SegsOf("header") \cup SegsOf("vlr")})
\* the offset to the chunk table is written at most once, at CreatedAt, and
\* it is written once a chunk is compressed or done() was called; the chunks
\* lie behind it, the first one 8 bytes behind CreatedAt; until done() it
\* holds -1
Placeholder ==
    new_result = "Ok" =>
        /\ SegsOf("chunk_table_offset") \subseteq {CreatedAt}
        /\ \A p \in SegsOf("chunk_table_offset") : sink.data[p].len = 8
        /\ (SegsOf("chunk") # {} \/ is_closed)
               => SegsOf("chunk_table_offset") = {CreatedAt}
        /\ SegsOf("chunk") # {} => MinOf(SegsOf("chunk")) = CreatedAt + 8
        /\ ~is_closed =>
               /\ \A p \in SegsOf("chunk_table_offset") : sink.data[p].payload = -1
               /\ SegsOf("chunk_table") = {}
\* after done() the 8 bytes hold the position of the one chunk table, which
\* lies behind the chunks; what close writes next, the hierarchy EVLR, starts
\* where the chunk table ends
Overwritten ==
    is_closed =>
        /\ Cardinality(SegsOf("chunk_table")) = 1
        /\ \A t \in SegsOf("chunk_table") :
               /\ sink.data[CreatedAt].payload = t
               /\ \A p \in SegsOf("chunk") : p + sink.data[p].len <= t
               /\ \A e \in HierarchyEvlrs : e = t + sink.data[t].len

\* C37: the 8-byte placeholder (-1) of the offset to the chunk table is
\* written exactly once, at the position the sink had when the compressor was
\* created and before any chunk byte, so the first chunk starts at
\* start_pos + 8; done() overwrites exactly those 8 bytes with the position
\* where the chunk table begins and leaves the stream behind the written
\* chunk table.
C37_ChunkTableOffset ==
    /\ Placeholder
    /\ Overwritten
    /\ (new_result = "Ok" /\ SegsOf("chunk_table_offset") # {})
           => compressor.start_pos = CreatedAt
\* a writer that emitted two chunks or more has been closed
C37_Witness ==
    /\ is_closed /\ Cardinality(SegsOf("chunk")) >= 2
    /\ sink.data[CreatedAt].kind = "chunk_table_offset"
    /\ sink.data[CreatedAt].payload > CreatedAt + 8

(***************************************************************************)
(* Properties of the decompressor (SpecSeek)                               *)
(***************************************************************************)
\* the last call made on the decompressor was source_seek
JustSeeked == dec # <<>> /\ dec[1].calls # <<>> /\ Last(dec[1].calls).op = "source_seek"
\* the i-th call was source_seek and the next one decompress_one
SeekThenDecompress(i) ==
    /\ i + 1 <= Len(dec[1].calls)
    /\ dec[1].calls[i].op = "source_seek"
    /\ dec[1].calls[i + 1].op = "decompress_one"
\* the per-chunk state is that of a decompressor about to read a chunk
ChunkStateReset == dec[1].chunk_points_read = 0 /\ dec[1].fresh /\ dec[1].loaded = <<>>

\* C38: source_seek(offset) leaves the source at start + offset, start being
\* the data start the decompressor was made with, it resets the state kept
\* per chunk, and the decompress_one that follows returns the first record of
\* the chunk that starts at start + offset.
C38_SourceSeek ==
    dec # <<>> =>
        /\ JustSeeked =>
               /\ dsource[1].pos = dec[1].data_start + Last(dec[1].calls).arg
               /\ ChunkStateReset
        /\ \A i \in 1..Len(dec[1].calls) :
               LET at == dec[1].data_start + dec[1].calls[i].arg
               IN  SeekThenDecompress(i) /\ AtOffset(dsource[1].data, at, "chunk")
                       => dec[1].calls[i + 1].out = Head(dsource[1].data[at].payload)

\* what source_seek does: the source is left at offset itself, the state kept
\* per chunk is reset
C38_AbsoluteSeek ==
    JustSeeked => dsource[1].pos = Last(dec[1].calls).arg /\ ChunkStateReset
\* a decompressor made with a data start other than 0 was sought
C38_SeekFromStart == JustSeeked /\ dec[1].data_start # 0

(***************************************************************************)
(* Properties of the hierarchy the writer keeps (Spec)                     *)
(***************************************************************************)
\* the positions of the chunks of the sink, in ascending order: the order in
\* which they were written
RECURSIVE Ascending(_)
Ascending(P) ==
    IF P = {} THEN <<>>
    ELSE LET least == CHOOSE p \in P : \A q \in P : p <= q
         IN  <<least>> \o Ascending(P \ {least})
EmissionOrder == Ascending(SegsOf("chunk"))

\* the i-th entry of the hierarchy is that of the i-th chunk written
InEmissionOrder ==
    /\ Len(hierarchy) = Len(EmissionOrder)
    /\ \A i \in DOMAIN hierarchy :
           /\ hierarchy[i].byte_size = sink.data[EmissionOrder[i]].len
           /\ hierarchy[i].point_count = Len(sink.data[EmissionOrder[i]].payload)
\* every entry starts where the entry before it ends, behind its start
EntryChain ==
    \A i \in 1..(Len(hierarchy) - 1) :
        /\ hierarchy[i + 1].offset = hierarchy[i].offset + hierarchy[i].byte_size
        /\ hierarchy[i].offset < hierarchy[i + 1].offset
\* no byte lies in the ranges of two entries
RangesDisjoint ==
    \A i, j \in DOMAIN hierarchy :
        i < j => hierarchy[i].offset + hierarchy[i].byte_size <= hierarchy[j].offset

\* C39: the hierarchy entries of the writer are in the order in which the
\* chunks were written: the offsets grow along the list, every entry starts
\* at the offset of the entry before it plus that entry's byte_size, and the
\* byte ranges of the entries are pairwise disjoint.
C39_EmissionOrder == InEmissionOrder /\ EntryChain /\ RangesDisjoint
\* a closed writer whose hierarchy holds the entry of a node that became full
\* and entries of chunks left open until close
C39_Witness ==
    /\ is_closed
    /\ Len(hierarchy) >= 3
    /\ hierarchy[1].point_count = max_node_size
    /\ hierarchy[2].point_count < max_node_size

\* no key has two entries in the hierarchy
KeysOnce ==
    \A i, j \in DOMAIN hierarchy : hierarchy[i].key = hierarchy[j].key => i = j
\* a node whose chunk was written holds no open chunk, and the points the
\* octree counts for it are those of its entry: it got no point since
FlushedStayShut ==
    \A i \in DOMAIN hierarchy :
        /\ hierarchy[i].key \notin DOMAIN open_chunks
        /\ hierarchy[i].key \in DOMAIN octree
        /\ octree[hierarchy[i].key] = hierarchy[i].point_count

\* C40: no VoxelKey has more than one hierarchy entry of the writer: the chunk
\* of a node is written at most once and the node gets no point after it, in
\* whatever order points are added at random, added greedily and the writer
\* is closed; every entry written has a point_count above 0.
C40_NodeFlushedOnce ==
    /\ KeysOnce
    /\ FlushedStayShut
    /\ \A i \in DOMAIN hierarchy : hierarchy[i].point_count > 0
\* a writer that is not closed has written the chunk of a node and holds
\* points in the open chunk of another node
C40_Witness ==
    /\ ~is_closed
    /\ Len(hierarchy) >= 1
    /\ \E k \in DOMAIN open_chunks : open_chunks[k] # <<>>

====
